---- MODULE Spec2Model ----
(***************************************************************************)
(* Notebooks of the MO-Book with AMPL, as state machines.                  *)
(*                                                                         *)
(* A kernel runs one notebook (nb) cell by cell, top to bottom (pc).  A    *)
(* cell is one action.  The AMPL model files are declarative: each is      *)
(* modelled by its constraints and objective, and ampl.solve() by an       *)
(* exhaustive search for the best feasible point on a lattice that holds   *)
(* every basic solution of the linear programme.                           *)
(*                                                                         *)
(* Numbers are exact rationals kept as integer numerators:                 *)
(*   probabilities           over PDen                                     *)
(*   quantities (x, y, d)    over QDen                                     *)
(*   money per scenario (f)  over QDen                                     *)
(*   expected money          over PDen * QDen                              *)
(***************************************************************************)
EXTENDS Integers, Sequences, FiniteSets, TLC

\* ---- bounds of the explored inputs ----
MaxDemand == 2
MaxPrice == 2
PGrid == 2

\* the notebook writes its probabilities in tenths (0.10, 0.60, 0.30)
Tenths == 10

PDen == Tenths * PGrid
\* quantities are numerators over the same denominator as probabilities
QDen == PDen

\* ---- arithmetic helpers ----
Max(S) == CHOOSE v \in S : \A u \in S : u <= v
Min(S) == CHOOSE v \in S : \A u \in S : v <= u
min2(a, b) == IF a <= b THEN a ELSE b
Abs(v) == IF v < 0 THEN 0 - v ELSE v

RECURSIVE SumOver(_, _)
SumOver(S, g) ==
    IF S = {} THEN 0
    ELSE LET s == CHOOSE t \in S : TRUE IN g[s] + SumOver(S \ {s}, g)

RECURSIVE GCD(_, _)
GCD(a, b) == IF b = 0 THEN a ELSE GCD(b, a % b)

RECURSIVE SetGCD(_)
SetGCD(S) ==
    IF S = {} THEN 0
    ELSE LET s == CHOOSE t \in S : TRUE IN GCD(s, SetGCD(S \ {s}))

\* the functions on S that pick one member of F[s] for every s
RECURSIVE Choices(_, _)
Choices(S, F) ==
    IF S = {} THEN {<<>>}
    ELSE LET s == CHOOSE t \in S : TRUE
         IN {(s :> v) @@ g : v \in F[s], g \in Choices(S \ {s}, F)}

\* nb, pc: the notebook and the last cell run; the other variables are the
\* globals of the notebooks, the files written, what was printed (out), the
\* AMPL instances with the calls each received (sessions), the regression
\* data (dataset) and the portfolio data (params)
VARIABLES nb, pc, r, c, w, scenarios, df, expected_demand, EVM,
          scenarios_df, files, ampl, out,
          T, imbalances, totalimbalances, abstotalimbalances, zeroimbalances,
          m, firststagecost, averagerecoursecost, sessions, dataset, params

popVars == <<r, c, w, scenarios, df, expected_demand, EVM, scenarios_df>>
opfVars == <<T, imbalances, totalimbalances, abstotalimbalances, zeroimbalances,
             m, firststagecost, averagerecoursecost>>
opfGlobals == <<T, imbalances, totalimbalances, abstotalimbalances, zeroimbalances,
                firststagecost, averagerecoursecost>>
vars == <<nb, pc, r, c, w, scenarios, df, expected_demand, EVM,
          scenarios_df, files, ampl, out,
          T, imbalances, totalimbalances, abstotalimbalances, zeroimbalances,
          m, firststagecost, averagerecoursecost, sessions, dataset, params>>

\* ======================================================================
\* Pop-up shop notebook
\* ======================================================================

\* the scenario table of the notebook
NotebookScenarios ==
    [s \in {"sunny skies", "good weather", "poor weather"} |->
        CASE s = "sunny skies"  -> [probability |-> 1 * PGrid, demand |-> 650]
          [] s = "good weather" -> [probability |-> 6 * PGrid, demand |-> 400]
          [] s = "poor weather" -> [probability |-> 3 * PGrid, demand |-> 200]]

\* other scenario tables: one or two scenarios, any probabilities k/PGrid
\* (also -1/PGrid and tables that do not sum to 1) and small demands; the
\* two names are interchangeable, so "a" has the smaller demand
GenericScenarios ==
    {t \in UNION { [S -> [probability : {k * Tenths : k \in (-1)..PGrid},
                          demand : 0..MaxDemand]] : S \in {{"a"}, {"a", "b"}} } :
        "b" \in DOMAIN t => t["a"].demand <= t["b"].demand}

Prices ==
    {p \in [r : 0..MaxPrice, c : 0..MaxPrice, w : 0..MaxPrice] :
        p.r >= p.c /\ p.c >= p.w}

ProbabilitiesValid(sc) ==
    /\ \A s \in DOMAIN sc : sc[s].probability >= 0
    /\ SumOver(DOMAIN sc, [s \in DOMAIN sc |-> sc[s].probability]) = PDen

\* expected_demand = sum(df["probability"] * df["demand"]); numerator over PDen
ExpectedDemand(t) ==
    SumOver(DOMAIN t, [s \in DOMAIN t |-> t[s].probability * t[s].demand])

\* the frame of the mean-demand solution when the whole order is sold,
\* whatever the demand
EVMFrame_all_sold(t, order, rr, cc, ww) ==
    [s \in DOMAIN t |->
        LET sold == order
            salvage == order - sold
        IN [probability |-> t[s].probability, demand |-> t[s].demand,
            order |-> order, sold |-> sold, salvage |-> salvage,
            profit |-> rr * sold + ww * salvage - cc * order]]

\* the four column assignments of the EVM cell; order, sold, salvage and
\* profit are numerators over QDen
EVMFrame(t, order, rr, cc, ww) ==
    [s \in DOMAIN t |->
        LET sold == min2(t[s].demand * QDen, order)
            salvage == order - sold
        IN [probability |-> t[s].probability, demand |-> t[s].demand,
            order |-> order, sold |-> sold, salvage |-> salvage,
            profit |-> rr * sold + ww * salvage - cc * order]]

\* EVM = sum(df["probability"] * df["profit"]); numerator over PDen * QDen
ExpectedProfit(t) ==
    SumOver(DOMAIN t, [s \in DOMAIN t |-> t[s].probability * t[s].profit])

\* scenarios_df: the table with its columns renamed to d and p
RenameColumns(sc) ==
    [s \in DOMAIN sc |-> [d |-> sc[s].demand, p |-> sc[s].probability]]

\* loading the data with the probabilities scaled to sum to one
LoadData_normalized(rr, cc, ww, sdf) ==
    LET total == SumOver(DOMAIN sdf, [s \in DOMAIN sdf |-> sdf[s].p])
    IN [r |-> rr, c |-> cc, w |-> ww, S |-> DOMAIN sdf,
        p |-> [s \in DOMAIN sdf |-> IF total = 0 THEN sdf[s].p
                                     ELSE (sdf[s].p * PDen) \div total],
        d |-> [s \in DOMAIN sdf |-> sdf[s].d]]

\* ampl.param["r"] = r ... ampl.set_data(scenarios_df, "S")
LoadData(rr, cc, ww, sdf) ==
    [r |-> rr, c |-> cc, w |-> ww, S |-> DOMAIN sdf,
     p |-> [s \in DOMAIN sdf |-> sdf[s].p],
     d |-> [s \in DOMAIN sdf |-> sdf[s].d]]

\* the objective of pop.mod with the salvage term of the markdown formula
profit_salvage_of_demand(mdl, x, y) == mdl.r * y + mdl.w * (mdl.d[CHOOSE s \in mdl.S : TRUE] * QDen - y) - mdl.c * x

\* the profit of pop.mod without the salvage value of the unsold items
profit_without_salvage(mdl, x, y) == mdl.r * y - mdl.c * x

\* ---- pop.mod ----
\* s.t. profit {s in S}: f[s] == r * y[s] + w * (x - y[s]) - c * x;
profit(mdl, x, y) == mdl.r * y + mdl.w * (x - y) - mdl.c * x
\* pop.mod without its first constraint: sales are not tied to the order
sales_less_than_order_dropped(x, y) == TRUE

\* s.t. sales_less_than_order {s in S}: y[s] <= x;
sales_less_than_order(x, y) == y <= x
\* s.t. sales_less_than_demand {s in S}: y[s] <= d[s];
sales_less_than_demand(mdl, s, y) == y <= mdl.d[s] * QDen

\* The search lattice of the solver.  Every basic solution of pop.mod and
\* of pop_evpi.mod has each x and y in {0} \cup {d[s]}, all multiples of
\* the greatest common divisor of the demands; the lattice L has that step
\* and runs one step beyond the largest demand.
Step(mdl) == LET g == SetGCD({mdl.d[s] : s \in mdl.S}) IN IF g = 0 THEN 1 ELSE g
MaxD(mdl) == Max({mdl.d[s] : s \in mdl.S})
Levels(mdl) ==
    LET st == Step(mdl)
    IN {k * st * QDen : k \in 0..(MaxD(mdl) \div st + 1)}

\* var x >= 0; var y{S} >= 0 (L holds no negative number)
YFeasible(mdl, L, x, s) ==
    {y \in L : sales_less_than_order(x, y) /\ sales_less_than_demand(mdl, s, y)}

\* maximize EV: sum{s in S} p[s] * f[s].  Given x the scenarios are
\* independent of one another, so the best EV for x is the sum of the best
\* terms p[s] * f[s].
BestTerm(mdl, L, x, s) ==
    Max({mdl.p[s] * profit(mdl, x, y) : y \in YFeasible(mdl, L, x, s)})
BestY(mdl, L, x, s) ==
    LET best == BestTerm(mdl, L, x, s)
    IN {y \in YFeasible(mdl, L, x, s) : mdl.p[s] * profit(mdl, x, y) = best}
EVGiven(mdl, L, x) == SumOver(mdl.S, [s \in mdl.S |-> BestTerm(mdl, L, x, s)])

\* beyond the largest demand the objective is linear in x: the problem is
\* unbounded exactly when the objective still grows on the last step
PopUnbounded(mdl, L) == EVGiven(mdl, L, Max(L)) > EVGiven(mdl, L, MaxD(mdl) * QDen)

PopPoint(mdl, status, x, y) ==
    [solve_result |-> status, x |-> x, y |-> y,
     f |-> [s \in mdl.S |-> profit(mdl, x, y[s])],
     EV |-> SumOver(mdl.S, [s \in mdl.S |-> mdl.p[s] * profit(mdl, x, y[s])])]

\* the results the solver may return for pop.mod: any optimal point, or
\* any feasible point with status unbounded
PopSolve(mdl) ==
    LET L == Levels(mdl)
        ev == [x \in L |-> EVGiven(mdl, L, x)]
        best == Max({ev[x] : x \in L})
    IN IF PopUnbounded(mdl, L)
       THEN UNION {{PopPoint(mdl, "unbounded", x, y) :
                       y \in Choices(mdl.S, [s \in mdl.S |-> YFeasible(mdl, L, x, s)])} :
                   x \in L}
       ELSE UNION {{PopPoint(mdl, "solved", x, y) :
                       y \in Choices(mdl.S, [s \in mdl.S |-> BestY(mdl, L, x, s)])} :
                   x \in {xx \in L : ev[xx] = best}}

\* ---- pop_evpi.mod: the order x is indexed by the scenario ----
\* s.t. profit {s in S}: f[s] == r * y[s] + w * (x[s] - y[s]) - c * x[s];
evpi_profit(mdl, x, y) == mdl.r * y + mdl.w * (x - y) - mdl.c * x
\* s.t. sales_less_than_order {s in S}: y[s] <= x[s];
evpi_sales_less_than_order(x, y) == y <= x
\* s.t. sales_less_than_demand {s in S}: y[s] <= d[s];
evpi_sales_less_than_demand(mdl, s, y) == y <= mdl.d[s] * QDen

\* the feasible (x[s], y[s]) pairs of one scenario
EvpiFeasible(mdl, L, s) ==
    {xy \in L \X L :
        evpi_sales_less_than_order(xy[1], xy[2]) /\ evpi_sales_less_than_demand(mdl, s, xy[2])}
EvpiTerm(mdl, s, xy) == mdl.p[s] * evpi_profit(mdl, xy[1], xy[2])
\* the scenarios share no variable: the best EV is the sum of the best terms
EvpiBest(mdl, L, s) ==
    LET F == EvpiFeasible(mdl, L, s)
        best == Max({EvpiTerm(mdl, s, xy) : xy \in F})
    IN {xy \in F : EvpiTerm(mdl, s, xy) = best}
\* the best term of scenario s when x[s] is held at x
EvpiTermAt(mdl, L, s, x) ==
    Max({EvpiTerm(mdl, s, xy) : xy \in {q \in EvpiFeasible(mdl, L, s) : q[1] = x}})
\* scenario s is unbounded when its term still grows on the last step of x
EvpiUnbounded(mdl, L) ==
    \E s \in mdl.S : EvpiTermAt(mdl, L, s, Max(L)) > EvpiTermAt(mdl, L, s, MaxD(mdl) * QDen)

EvpiPoint(mdl, status, xy) ==
    [solve_result |-> status,
     x |-> [s \in mdl.S |-> xy[s][1]], y |-> [s \in mdl.S |-> xy[s][2]],
     f |-> [s \in mdl.S |-> evpi_profit(mdl, xy[s][1], xy[s][2])],
     EV |-> SumOver(mdl.S, [s \in mdl.S |-> EvpiTerm(mdl, s, xy[s])])]

EvpiSolve(mdl) ==
    LET L == Levels(mdl)
    IN IF EvpiUnbounded(mdl, L)
       THEN {EvpiPoint(mdl, "unbounded", xy) :
                xy \in Choices(mdl.S, [s \in mdl.S |-> EvpiFeasible(mdl, L, s)])}
       ELSE {EvpiPoint(mdl, "solved", xy) :
                xy \in Choices(mdl.S, [s \in mdl.S |-> EvpiBest(mdl, L, s)])}

\* the session created by ampl_notebook(): no model, no data, no result
EmptySession == [model |-> "none"]

\* ---- the AMPL instances of a kernel and the calls made on each ----
\* sessions[1] is the instance ampl_notebook() creates and the %%ampl_eval
\* magic talks to; every AMPL() appends a new one.  An instance is the model
\* it holds and the calls it received, in order
Call(op, arg) == [op |-> op, arg |-> arg]
FreshSession == [model |-> "none", calls |-> <<>>]
NewSession(ss, model, calls) == Append(ss, [model |-> model, calls |-> calls])
OnSession(ss, i, model, calls) ==
    [ss EXCEPT ![i] = [model |-> model, calls |-> ss[i].calls \o calls]]

\* a solve that falls back to highs when the selected solver does not end
\* with an optimal solution
SolveCalls_with_fallback(solver, res) ==
    << Call("option", <<"solver", solver>>),
       Call("solve", [solver |-> solver, result |-> res]) >>
    \o IF res.solve_result = "solved" THEN <<>>
       ELSE <<Call("solve", [solver |-> "highs", result |-> res])>>

\* ampl.option["solver"] = ...; ampl.solve()
SolveCalls(solver, res) ==
    << Call("option", <<"solver", solver>>),
       Call("solve", [solver |-> solver, result |-> res]) >>

\* what the log keeps of a solve of pop.mod, pop_evpi.mod or opf_ldr.mod: the
\* solver's message, its status and objective value
Banner(status, objective) == [solve_result |-> status, objective |-> objective]

\* the pop-up shop driver with the salvage value set after the solve
PopCalls_w_after_solve(file, rr, cc, ww, sdf, solver, res) ==
    << Call("read", file),
       Call("param", <<"r", rr>>), Call("param", <<"c", cc>>),
       Call("set_data", <<"S", sdf>>) >>
    \o SolveCalls(solver, Banner(res.solve_result, res.EV))
    \o << Call("param", <<"w", ww>>),
          Call("get", "solve_result"), Call("get", "x"), Call("get", "y"),
          Call("get", "f"), Call("get", "EV") >>

\* the calls of the two pop-up shop drivers, from AMPL() to the report
PopCalls(file, rr, cc, ww, sdf, solver, res) ==
    << Call("read", file),
       Call("param", <<"r", rr>>), Call("param", <<"c", cc>>), Call("param", <<"w", ww>>),
       Call("set_data", <<"S", sdf>>) >>
    \o SolveCalls(solver, Banner(res.solve_result, res.EV))
    \o << Call("get", "solve_result"), Call("get", "x"), Call("get", "y"),
          Call("get", "f"), Call("get", "EV") >>

\* ---- the cells ----
\* price information, scenario information, df and expected_demand
Cell_expected_demand ==
    /\ nb = "pop" /\ pc = "start"
    /\ df' = scenarios
    /\ expected_demand' = ExpectedDemand(scenarios)
    /\ out' = out @@ ("Expected demand" :> expected_demand')
    /\ pc' = "data"
    /\ UNCHANGED <<nb, dataset, params, sessions, opfVars, r, c, w, scenarios, EVM, scenarios_df, files, ampl>>

Cell_EVM ==
    /\ nb = "pop" /\ pc = "data"
    /\ df' = EVMFrame(df, expected_demand, r, c, w)
    /\ EVM' = ExpectedProfit(df')
    /\ out' = out @@ ("EVM" :> EVM')
    /\ pc' = "evm"
    /\ UNCHANGED <<nb, dataset, params, sessions, opfVars, r, c, w, scenarios, expected_demand, scenarios_df, files, ampl>>

Writefile_pop_mod ==
    /\ nb = "pop" /\ pc = "evm"
    /\ files' = files \cup {"pop.mod"}
    /\ pc' = "pop.mod"
    /\ UNCHANGED <<nb, dataset, params, sessions, opfVars, popVars, ampl, out>>

\* the solve cell with a report that prints the frame of the solution and
\* the expected profit only after an optimal solve
Cell_solve_pop_guarded ==
    /\ nb = "pop" /\ pc = "pop.mod" /\ "pop.mod" \in files
    /\ scenarios_df' = RenameColumns(scenarios)
    /\ LET mdl == LoadData(r, c, w, scenarios_df')
       IN \E res \in PopSolve(mdl) :
            /\ ampl' = [model |-> "pop.mod", data |-> mdl, solver |-> "cbc", result |-> res]
            /\ sessions' = NewSession(sessions, "pop.mod",
                                PopCalls("pop.mod", r, c, w, scenarios_df', "cbc", res))
            /\ df' = IF res.solve_result = "solved"
                     THEN [s \in DOMAIN scenarios |->
                            [probability |-> scenarios[s].probability,
                             demand |-> scenarios[s].demand,
                             order |-> res.x, sold |-> res.y[s],
                             salvage |-> res.x - res.y[s], profit |-> res.f[s]]]
                     ELSE scenarios
            /\ out' = IF res.solve_result = "solved"
                      THEN out @@ ("pop.mod solve_result" :> res.solve_result)
                               @@ ("pop.mod Expected Profit" :> res.EV)
                      ELSE out @@ ("pop.mod solve_result" :> res.solve_result)
    /\ pc' = "pop solved"
    /\ UNCHANGED <<nb, dataset, params, opfVars, r, c, w, scenarios, expected_demand, EVM, files>>

\* the cell assigns r, c, w and scenarios again, from the same literals as
\* the data cell (the data of a run is one input, written in both cells);
\* it builds scenarios_df, creates the session, loads model and data,
\* solves and reports
Cell_solve_pop ==
    /\ nb = "pop" /\ pc = "pop.mod" /\ "pop.mod" \in files
    /\ scenarios_df' = RenameColumns(scenarios)
    /\ LET mdl == LoadData(r, c, w, scenarios_df')
       IN \E res \in PopSolve(mdl) :
            /\ ampl' = [model |-> "pop.mod", data |-> mdl, solver |-> "cbc", result |-> res]
            /\ sessions' = NewSession(sessions, "pop.mod",
                                PopCalls("pop.mod", r, c, w, scenarios_df', "cbc", res))
            /\ df' = [s \in DOMAIN scenarios |->
                        [probability |-> scenarios[s].probability,
                         demand |-> scenarios[s].demand,
                         order |-> res.x, sold |-> res.y[s],
                         salvage |-> res.x - res.y[s], profit |-> res.f[s]]]
            /\ out' = out @@ ("pop.mod solve_result" :> res.solve_result)
                          @@ ("pop.mod Expected Profit" :> res.EV)
    /\ pc' = "pop solved"
    /\ UNCHANGED <<nb, dataset, params, opfVars, r, c, w, scenarios, expected_demand, EVM, files>>

Writefile_pop_evpi_mod ==
    /\ nb = "pop" /\ pc = "pop solved"
    /\ files' = files \cup {"pop_evpi.mod"}
    /\ pc' = "pop_evpi.mod"
    /\ UNCHANGED <<nb, dataset, params, sessions, opfVars, popVars, ampl, out>>

\* the salvage column is rounded to two decimals: the lattice quantities
\* are whole numbers, which the rounding leaves as they are
Cell_solve_pop_evpi ==
    /\ nb = "pop" /\ pc = "pop_evpi.mod" /\ "pop_evpi.mod" \in files
    /\ LET mdl == LoadData(r, c, w, scenarios_df)
       IN \E res \in EvpiSolve(mdl) :
            /\ ampl' = [model |-> "pop_evpi.mod", data |-> mdl, solver |-> "cbc", result |-> res]
            /\ sessions' = NewSession(sessions, "pop_evpi.mod",
                                PopCalls("pop_evpi.mod", r, c, w, scenarios_df, "cbc", res))
            /\ df' = [s \in DOMAIN scenarios |->
                        [probability |-> scenarios[s].probability,
                         demand |-> scenarios[s].demand,
                         order |-> res.x[s], sold |-> res.y[s],
                         salvage |-> res.x[s] - res.y[s], profit |-> res.f[s]]]
            /\ out' = out @@ ("pop_evpi.mod solve_result" :> res.solve_result)
                          @@ ("pop_evpi.mod Expected Profit" :> res.EV)
    /\ pc' = "done"
    /\ UNCHANGED <<nb, dataset, params, opfVars, r, c, w, scenarios, expected_demand, EVM, scenarios_df, files>>

\* ---- linear programs held by a session, in the form `expand;` shows ----
\* a program is [names, lo, hi, sense, objname, obj, rows]; lo and obj are
\* tuples over the variables, hi[i] is the set holding the upper bound of
\* variable i (empty when it has none), a row is [name, coef, op, rhs]
RECURSIVE DotFrom(_, _, _)
DotFrom(a, b, i) == IF i > Len(a) THEN 0 ELSE a[i] * b[i] + DotFrom(a, b, i + 1)
Dot(a, b) == DotFrom(a, b, 1)

\* points are numerators over den
RowHolds(row, pt, den) ==
    IF row.op = "<=" THEN Dot(row.coef, pt) <= row.rhs * den
                     ELSE Dot(row.coef, pt) >= row.rhs * den

InBounds(lp, pt, den) ==
    \A i \in 1..Len(lp.names) :
        /\ pt[i] >= lp.lo[i] * den
        /\ \A h \in lp.hi[i] : pt[i] <= h * den

LPFeasible(lp, pt, den) ==
    InBounds(lp, pt, den) /\ \A k \in 1..Len(lp.rows) : RowHolds(lp.rows[k], pt, den)

RECURSIVE Tuples(_, _)
Tuples(levels, n) ==
    IF n = 0 THEN {<<>>}
    ELSE {Append(t, v) : t \in Tuples(levels, n - 1), v \in levels[n]}

\* the search lattice: variable i takes the multiples of step up to caps[i]
Lattice(caps, step) ==
    Tuples([i \in 1..Len(caps) |-> {k * step : k \in 0..(caps[i] \div step)}], Len(caps))

\* what a solver returns on a program whose optima lie in the lattice: any
\* best feasible point, or "infeasible" when there is none
LatticeSolve(lp, caps, step, den) ==
    LET feas == {pt \in Lattice(caps, step) : LPFeasible(lp, pt, den)}
        val == [pt \in feas |-> Dot(lp.obj, pt)]
        best == IF lp.sense = "maximize" THEN Max({val[pt] : pt \in feas})
                                         ELSE Min({val[pt] : pt \in feas})
    IN IF feas = {} THEN {[solve_result |-> "infeasible"]}
       ELSE {[solve_result |-> "solved", objective |-> best, x |-> pt, den |-> den] :
                pt \in {q \in feas : val[q] = best}}

\* value of variable `name` in a result, as a numerator over the result's den
Value(sess, name) ==
    LET i == CHOOSE k \in 1..Len(sess.lp.names) : sess.lp.names[k] = name
    IN sess.result.x[i]

\* ---- 02/bim.ipynb ----
BimPrimal ==
    [names |-> <<"x1", "x2">>, lo |-> <<0, 0>>, hi |-> <<{}, {}>>,
     sense |-> "maximize", objname |-> "profit", obj |-> <<12, 9>>,
     rows |-> << [name |-> "silicon",   coef |-> <<1, 0>>, op |-> "<=", rhs |-> 1000],
                 [name |-> "germanium", coef |-> <<0, 1>>, op |-> "<=", rhs |-> 1500],
                 [name |-> "plastic",   coef |-> <<1, 1>>, op |-> "<=", rhs |-> 1750],
                 [name |-> "copper",    coef |-> <<4, 2>>, op |-> "<=", rhs |-> 4800] >>]

\* the dual with the copper coefficient of the logic chip taken from the
\* memory chip's row
BimDual_copper_swapped ==
    [names |-> <<"y1", "y2", "y3", "y4">>, lo |-> <<0, 0, 0, 0>>, hi |-> <<{}, {}, {}, {}>>,
     sense |-> "minimize", objname |-> "obj", obj |-> <<1000, 1500, 1750, 4800>>,
     rows |-> << [name |-> "x1", coef |-> <<1, 0, 1, 2>>, op |-> ">=", rhs |-> 12],
                 [name |-> "x2", coef |-> <<0, 1, 1, 4>>, op |-> ">=", rhs |-> 9] >>]

BimDual ==
    [names |-> <<"y1", "y2", "y3", "y4">>, lo |-> <<0, 0, 0, 0>>, hi |-> <<{}, {}, {}, {}>>,
     sense |-> "minimize", objname |-> "obj", obj |-> <<1000, 1500, 1750, 4800>>,
     rows |-> << [name |-> "x1", coef |-> <<1, 0, 1, 4>>, op |-> ">=", rhs |-> 12],
                 [name |-> "x2", coef |-> <<0, 1, 1, 2>>, op |-> ">=", rhs |-> 9] >>]

\* rows a1*v1 + ... <= rhs with nonnegative coefficients: no feasible point
\* has variable i above the least rhs / coef[i]
PackCaps(lp) ==
    [i \in 1..Len(lp.names) |->
        Min({lp.rows[k].rhs \div lp.rows[k].coef[i] :
                k \in {j \in 1..Len(lp.rows) : lp.rows[j].coef[i] > 0}})]

\* rows a1*v1 + ... >= rhs with nonnegative coefficients and positive costs:
\* no optimal point has variable i above the largest rhs / coef[i]
CoverCaps(lp, den) ==
    [i \in 1..Len(lp.names) |->
        Max({(lp.rows[k].rhs * den + lp.rows[k].coef[i] - 1) \div lp.rows[k].coef[i] :
                k \in {j \in 1..Len(lp.rows) : lp.rows[j].coef[i] > 0}})]

\* every vertex of the primal is a multiple of the common divisor of the stocks
BimStep == SetGCD({BimPrimal.rows[k].rhs : k \in 1..Len(BimPrimal.rows)})
\* the vertices of the dual are halves: the basis of plastic and copper has
\* this determinant, every other feasible basis gives whole numbers
BimDualDen ==
    Abs(BimDual.rows[1].coef[3] * BimDual.rows[2].coef[4]
          - BimDual.rows[1].coef[4] * BimDual.rows[2].coef[3])

Cell_bim_model ==
    /\ nb = "bim" /\ pc = "start"
    /\ ampl' = [model |-> "cell", lp |-> BimPrimal]
    /\ sessions' = OnSession(sessions, 1, "cell", <<Call("eval", BimPrimal)>>)
    /\ pc' = "bim model"
    /\ UNCHANGED <<nb, dataset, params, opfVars, popVars, files, out>>

Cell_bim_solve ==
    /\ nb = "bim" /\ pc = "bim model"
    /\ \E res \in LatticeSolve(ampl.lp, PackCaps(ampl.lp), BimStep, 1) :
        /\ ampl' = [model |-> ampl.model, lp |-> ampl.lp, solver |-> "highs", result |-> res]
        /\ sessions' = OnSession(sessions, 1, ampl.model,
                        SolveCalls("highs", res)
                          \o <<Call("get", "x1"), Call("get", "x2"), Call("get", "profit")>>)
        /\ out' = ("x" :> res.x) @@ ("optimal value" :> res.objective) @@ out
    /\ pc' = "bim solved"
    /\ UNCHANGED <<nb, dataset, params, opfVars, popVars, files>>

Writefile_bim_dual_mod ==
    /\ nb = "bim" /\ pc = "bim solved"
    /\ files' = files \cup {"bim_dual.mod"}
    /\ pc' = "bim_dual.mod"
    /\ UNCHANGED <<nb, dataset, params, sessions, opfVars, popVars, ampl, out>>

\* the dual read into the instance that already holds the primal
Cell_bim_dual_solve_shared ==
    /\ nb = "bim" /\ pc = "bim_dual.mod" /\ "bim_dual.mod" \in files
    /\ \E res \in LatticeSolve(BimDual, CoverCaps(BimDual, BimDualDen), 1, BimDualDen) :
        /\ ampl' = [model |-> "bim_dual.mod", lp |-> BimDual, solver |-> "highs", result |-> res]
        /\ sessions' = OnSession(sessions, 1, "bim_dual.mod",
                        <<Call("read", "bim_dual.mod")>> \o SolveCalls("highs", res)
                          \o <<Call("get", "y1"), Call("get", "y2"), Call("get", "y3"),
                               Call("get", "y4"), Call("get", "obj")>>)
        /\ out' = ("y" :> res.x) @@ ("dual optimal value" :> res.objective) @@ out
    /\ pc' = "done"
    /\ UNCHANGED <<nb, dataset, params, opfVars, popVars, files>>

Cell_bim_dual_solve ==
    /\ nb = "bim" /\ pc = "bim_dual.mod" /\ "bim_dual.mod" \in files
    /\ \E res \in LatticeSolve(BimDual, CoverCaps(BimDual, BimDualDen), 1, BimDualDen) :
        /\ ampl' = [model |-> "bim_dual.mod", lp |-> BimDual, solver |-> "highs", result |-> res]
        /\ sessions' = NewSession(sessions, "bim_dual.mod",
                        <<Call("read", "bim_dual.mod")>> \o SolveCalls("highs", res)
                          \o <<Call("get", "y1"), Call("get", "y2"), Call("get", "y3"),
                               Call("get", "y4"), Call("get", "obj")>>)
        /\ out' = ("y" :> res.x) @@ ("dual optimal value" :> res.objective) @@ out
    /\ pc' = "done"
    /\ UNCHANGED <<nb, dataset, params, opfVars, popVars, files>>

\* ---- production planning: the problem statement ----
\* what one unit of each version requires and sells for, and what the
\* resources offer and cost, as the two tables of the statement give them
ProblemStatement ==
    [U |-> [raw |-> 10, laborA |-> 1, laborB |-> 2, price |-> 270],
     V |-> [raw |-> 9, laborA |-> 1, laborB |-> 1, price |-> 210],
     cost |-> [raw |-> 10, laborA |-> 50, laborB |-> 40]]

\* ---- production planning: the basic AMPL model ----
ProdNames == <<"xM", "xA", "xB", "yU", "yV">>

\* reset; var xM >= 0; var xA >= 0, <= 80; ...
ProdVariables ==
    [names |-> ProdNames, lo |-> <<0, 0, 0, 0, 0>>, hi |-> <<{}, {80}, {100}, {40}, {}>>,
     sense |-> "none", objname |-> "none", obj |-> <<0, 0, 0, 0, 0>>, rows |-> <<>>]

\* the basic model with the sales price of V raised to that of U
ProdObjective_price_of_U == [name |-> "Profit", coef |-> <<-10, -50, -40, 270, 270>>]

\* the basic model with raw material free of charge: any purchase that
\* covers the plan is then as good as any other
ProdObjective_free_raw_material == [name |-> "Profit", coef |-> <<0, -50, -40, 270, 210>>]

\* maximize Profit: 270*yU + 210*yV - 10*xM - 50*xA - 40*xB
ProdObjective == [name |-> "Profit", coef |-> <<-10, -50, -40, 270, 210>>]

\* 10*yU + 9*yV <= xM and the two labor rows, with xM, xA, xB moved left
ProdConstraints ==
    << [name |-> "raw_materials", coef |-> <<-1, 0, 0, 10, 9>>, op |-> "<=", rhs |-> 0],
       [name |-> "labor_A",       coef |-> <<0, -1, 0, 2, 1>>,  op |-> "<=", rhs |-> 0],
       [name |-> "labor_B",       coef |-> <<0, 0, -1, 1, 1>>,  op |-> "<=", rhs |-> 0] >>

WithObjective(lp, o) ==
    [names |-> lp.names, lo |-> lp.lo, hi |-> lp.hi,
     sense |-> "maximize", objname |-> o.name, obj |-> o.coef, rows |-> lp.rows]

WithConstraints(lp, rows) ==
    [names |-> lp.names, lo |-> lp.lo, hi |-> lp.hi,
     sense |-> lp.sense, objname |-> lp.objname, obj |-> lp.obj, rows |-> lp.rows \o rows]

\* production_planning_basic.mod: the defined variables revenue and cost
Revenue == <<0, 0, 0, 270, 210>>
Cost == <<10, 50, 40, 0, 0>>
ProdBasicMod ==
    [names |-> <<"x_M", "x_A", "x_B", "y_U", "y_V">>,
     lo |-> <<0, 0, 0, 0, 0>>, hi |-> <<{}, {80}, {100}, {40}, {}>>,
     sense |-> "maximize", objname |-> "profit",
     obj |-> [i \in 1..5 |-> Revenue[i] - Cost[i]],
     rows |-> << [name |-> "raw_materials", coef |-> <<-1, 0, 0, 10, 9>>, op |-> "<=", rhs |-> 0],
                 [name |-> "labor_A",       coef |-> <<0, -1, 0, 2, 1>>,  op |-> "<=", rhs |-> 0],
                 [name |-> "labor_B",       coef |-> <<0, 0, -1, 1, 1>>,  op |-> "<=", rhs |-> 0] >>]

TheBound(S) == CHOOSE h \in S : TRUE

\* where an optimum can lie: xA, xB and yU have declared bounds, the labor
\* rows keep yV below the bound of either labor, and raw material beyond
\* the largest requirement only costs
ProdCaps(lp) ==
    LET capA == TheBound(lp.hi[2])
        capB == TheBound(lp.hi[3])
        capU == TheBound(lp.hi[4])
        capV == min2(capA, capB)
    IN <<lp.rows[1].coef[4] * capU + lp.rows[1].coef[5] * capV, capA, capB, capU, capV>>

\* every vertex is a multiple of the common divisor of the declared bounds
ProdStep(lp) == SetGCD(UNION {lp.hi[i] : i \in 1..Len(lp.names)})

Cell_prod_variables ==
    /\ nb = "prod" /\ pc = "start"
    /\ ampl' = [model |-> "cell", lp |-> ProdVariables]
    /\ sessions' = OnSession(sessions, 1, "cell",
                    <<Call("reset", "reset;"), Call("eval", ProdVariables)>>)
    /\ pc' = "variables"
    /\ UNCHANGED <<nb, dataset, params, opfVars, popVars, files, out>>

Cell_prod_objective ==
    /\ nb = "prod" /\ pc = "variables"
    /\ ampl' = [model |-> "cell", lp |-> WithObjective(ampl.lp, ProdObjective)]
    /\ sessions' = OnSession(sessions, 1, "cell", <<Call("eval", ProdObjective)>>)
    /\ pc' = "objective"
    /\ UNCHANGED <<nb, dataset, params, opfVars, popVars, files, out>>

Cell_prod_constraints ==
    /\ nb = "prod" /\ pc = "objective"
    /\ ampl' = [model |-> "cell", lp |-> WithConstraints(ampl.lp, ProdConstraints)]
    /\ sessions' = OnSession(sessions, 1, "cell", <<Call("eval", ProdConstraints)>>)
    /\ pc' = "constraints"
    /\ UNCHANGED <<nb, dataset, params, opfVars, popVars, files, out>>

\* show; expand; solve with cbc, then solve again with highs
Cell_prod_solve ==
    /\ nb = "prod" /\ pc = "constraints"
    /\ LET results == LatticeSolve(ampl.lp, ProdCaps(ampl.lp), ProdStep(ampl.lp), 1)
       IN \E cbc \in results : \E highs \in results :
            /\ ampl' = [model |-> "cell", lp |-> ampl.lp, solver |-> "highs", result |-> highs]
            /\ sessions' = OnSession(sessions, 1, "cell",
                            <<Call("show", "show;"), Call("show", "expand;")>>
                              \o SolveCalls("cbc", cbc) \o SolveCalls("highs", highs))
            /\ out' = ("cbc objective" :> cbc.objective)
                        @@ ("highs objective" :> highs.objective) @@ out
    /\ pc' = "solved"
    /\ UNCHANGED <<nb, dataset, params, opfVars, popVars, files>>

\* get_solution(zeros=True), display, get_value
Cell_prod_report ==
    /\ nb = "prod" /\ pc = "solved"
    /\ sessions' = OnSession(sessions, 1, "cell",
                    <<Call("get", "solution"), Call("display", "Profit"),
                      Call("get", "Profit"), Call("get", "270*yU + 210*yV"),
                      Call("get", "10*xM + 50*xA + 40*xB")>>)
    /\ out' = ("solution" :> [i \in 1..Len(ampl.lp.names) |->
                                <<ampl.lp.names[i], ampl.result.x[i]>>])
                @@ ("Profit" :> Dot(ampl.lp.obj, ampl.result.x))
                @@ ("Revenue" :> 270 * Value(ampl, "yU") + 210 * Value(ampl, "yV"))
                @@ ("Cost" :> 10 * Value(ampl, "xM") + 50 * Value(ampl, "xA")
                                + 40 * Value(ampl, "xB"))
                @@ out
    /\ pc' = "reported"
    /\ UNCHANGED <<nb, dataset, params, opfVars, popVars, files, ampl>>

Writefile_production_planning_basic_mod ==
    /\ nb = "prod" /\ pc = "reported"
    /\ files' = files \cup {"production_planning_basic.mod"}
    /\ pc' = "production_planning_basic.mod"
    /\ UNCHANGED <<nb, dataset, params, sessions, opfVars, popVars, ampl, out>>

Cell_prod_solve_file ==
    /\ nb = "prod" /\ pc = "production_planning_basic.mod"
    /\ "production_planning_basic.mod" \in files
    /\ \E res \in LatticeSolve(ProdBasicMod, ProdCaps(ProdBasicMod), ProdStep(ProdBasicMod), 1) :
        /\ ampl' = [model |-> "production_planning_basic.mod", lp |-> ProdBasicMod,
                    solver |-> "highs", result |-> res]
        /\ sessions' = NewSession(sessions, "production_planning_basic.mod",
                        <<Call("read", "production_planning_basic.mod")>>
                          \o SolveCalls("highs", res))
        /\ out' = ("file objective" :> res.objective) @@ out
    /\ pc' = "done"
    /\ UNCHANGED <<nb, dataset, params, opfVars, popVars, files>>

\* ---- optimal power flow with participation factors ----
MaxT == 2

\* nodes.csv and edges.csv: a coal unit, a gas unit, a wind farm and a load
\* on three lines that meet at the load; the lines carry any injection
Network ==
    [nodes |-> [i \in 0..3 |->
        CASE i = 0 -> [energy_type |-> "coal", p_min |-> 0, p_max |-> 2, c |-> 1, d |-> 0, is_generator |-> 1]
          [] i = 1 -> [energy_type |-> "gas",  p_min |-> 0, p_max |-> 2, c |-> 2, d |-> 0, is_generator |-> 1]
          [] i = 2 -> [energy_type |-> "wind", p_min |-> 2, p_max |-> 2, c |-> 0, d |-> 0, is_generator |-> 1]
          [] i = 3 -> [energy_type |-> "",     p_min |-> 0, p_max |-> 0, c |-> 0, d |-> 3, is_generator |-> 0]],
     edges |-> [e \in {<<0, 3>>, <<1, 3>>, <<2, 3>>} |-> [b |-> 1, f_max |-> 10]]]

\* the nodes whose production may deviate from the forecast
SW == {i \in DOMAIN Network.nodes : Network.nodes[i].energy_type = "wind"}

\* one draw of rng.uniform(-p_min / 2, p_min / 2) for a node of SW, else 0
Deviations(i) ==
    IF i \in SW
    THEN (0 - Network.nodes[i].p_min \div 2)..(Network.nodes[i].p_min \div 2)
    ELSE {0}

ScenarioDicts == Choices(DOMAIN Network.nodes, [i \in DOMAIN Network.nodes |-> Deviations(i)])

\* the total imbalances with the sign turned
Totals_negated(list) == [t \in 0..(Len(list) - 1) |-> 0 - SumOver(DOMAIN list[t + 1], list[t + 1])]

Totals(list) == [t \in 0..(Len(list) - 1) |-> SumOver(DOMAIN list[t + 1], list[t + 1])]
AbsTotals(tot) == [t \in 0..(Cardinality(DOMAIN tot) - 1) |-> Abs(tot[t])]

EmptyDict == [k \in {} |-> 0]

\* the count of range(1, len(imbalances))
nimbalances_dropping_last(list) == Len(list) - 1

\* nimbalances = len(imbalances)
nimbalances(list) == Len(list)

\* every entry of a scenario takes the value of the scenario's first node
FlattenRow_first_value(i, j, temp) ==
    [key \in DOMAIN temp \cup {<<i, k>> : k \in DOMAIN j} |->
        IF key[1] = i /\ key[2] \in DOMAIN j THEN j[Min(DOMAIN j)] ELSE temp[key]]

\* for k, v in j.items(): temp[i, k] = v
FlattenRow(i, j, temp) ==
    [key \in DOMAIN temp \cup {<<i, k>> : k \in DOMAIN j} |->
        IF key[1] = i /\ key[2] \in DOMAIN j THEN j[key[2]] ELSE temp[key]]

\* for i, j in enumerate(imbalances): ...
RECURSIVE FlattenFrom(_, _, _)
FlattenFrom(list, i, temp) ==
    IF i >= Len(list) THEN temp
    ELSE FlattenFrom(list, i + 1, FlattenRow(i, list[i + 1], temp))

Flatten(list) == FlattenFrom(list, 0, EmptyDict)

\* list(range(n)) and the set AMPL makes of it
RangeList(n) == [k \in 1..n |-> k - 1]
Members(list) == {list[k] : k \in 1..Len(list)}

WithEnergyType(nodes_df, types) == {i \in DOMAIN nodes_df : nodes_df[i].energy_type \in types}

\* the data with the two total-imbalance parameters exchanged
OpfData_totals_swapped(network, n, table, tot, abst, uniform) ==
    [V |-> DOMAIN network.nodes,
     E |-> DOMAIN network.edges,
     T |-> Members(RangeList(n)),
     SWH |-> WithEnergyType(network.nodes, {"wind", "solar", "hydro"}),
     CG |-> WithEnergyType(network.nodes, {"coal", "gas"}),
     NG |-> WithEnergyType(network.nodes, {""}),
     nodes |-> network.nodes,
     edges |-> network.edges,
     abs_total_imbalance |-> tot,
     total_imbalance |-> abst,
     uniformparticipationfactors |-> IF uniform THEN 1 ELSE 0,
     imbalances |-> table]

\* the sets and parameters the function loads into the session
OpfData(network, n, table, tot, abst, uniform) ==
    [V |-> DOMAIN network.nodes,
     E |-> DOMAIN network.edges,
     T |-> Members(RangeList(n)),
     SWH |-> WithEnergyType(network.nodes, {"wind", "solar", "hydro"}),
     CG |-> WithEnergyType(network.nodes, {"coal", "gas"}),
     NG |-> WithEnergyType(network.nodes, {""}),
     nodes |-> network.nodes,
     edges |-> network.edges,
     abs_total_imbalance |-> abst,
     total_imbalance |-> tot,
     uniformparticipationfactors |-> IF uniform THEN 1 ELSE 0,
     imbalances |-> table]

\* the index set of every constraint of opf_ldr.mod
Instantiate(data) ==
    [windsolarhydro_nopartecipationfactors |-> data.SWH,
     load_nopartecipationfactors |-> data.NG,
     sum_one |-> {<<>>},
     uniformparticipationfactors_check |-> data.CG,
     power_withrecourse |-> data.V \X data.T,
     generation_upper_bound_withrecourse |-> data.CG \X data.T,
     generation_lower_bound_withrecourse |-> data.CG \X data.T,
     flow_conservation |-> data.V \X data.T,
     susceptance |-> data.E \X data.T,
     flows_upper_bound |-> data.E \X data.T,
     flows_lower_bound |-> data.E \X data.T]

\* ---- opf_ldr.mod on the search lattice ----
\* p, alpha and r are numerators over Den(data): the uniform factors
\* 1 / card(CG) and every vertex of this network lie on that lattice
Den(data) == Cardinality(data.CG)

\* r[i, t] = p[i] - alpha[i] * total_imbalance[t]
power_withrecourse(data, pt, i, t) == pt.p[i] - pt.alpha[i] * data.total_imbalance[t]

\* opf_ldr.mod with the participation of wind, solar and hydro left free
windsolarhydro_free(data, pt) == TRUE

windsolarhydro_nopartecipationfactors(data, pt) == \A i \in data.SWH : pt.alpha[i] = 0
load_nopartecipationfactors(data, pt) == \A i \in data.NG : pt.alpha[i] = 0
sum_one(data, pt) == SumOver(data.V, pt.alpha) = Den(data)
uniformparticipationfactors_check(data, pt) ==
    \A i \in data.CG :
        data.uniformparticipationfactors = 1 => pt.alpha[i] * Cardinality(data.CG) = Den(data)

\* var r{V, T} >= 0
r_nonnegative(data, pt) ==
    \A i \in data.V, t \in data.T : power_withrecourse(data, pt, i, t) >= 0
generation_upper_bound_withrecourse(data, pt) ==
    \A i \in data.CG, t \in data.T :
        power_withrecourse(data, pt, i, t) <= data.nodes[i].p_max * Den(data)
generation_lower_bound_withrecourse(data, pt) ==
    \A i \in data.CG, t \in data.T :
        power_withrecourse(data, pt, i, t) >= data.nodes[i].p_min * Den(data)

\* flow_conservation summed over the nodes: on lines that meet in one node
\* and never bind, flows and angles exist exactly when injections balance
flow_conservation(data, pt) ==
    \A t \in data.T :
        SumOver(data.V, [i \in data.V |->
            power_withrecourse(data, pt, i, t)
              + (data.imbalances[<<t, i>>] - data.nodes[i].d) * Den(data)]) = 0

OpfFeasible(data, pt) ==
    /\ windsolarhydro_nopartecipationfactors(data, pt)
    /\ load_nopartecipationfactors(data, pt)
    /\ sum_one(data, pt)
    /\ uniformparticipationfactors_check(data, pt)
    /\ r_nonnegative(data, pt)
    /\ generation_upper_bound_withrecourse(data, pt)
    /\ generation_lower_bound_withrecourse(data, pt)
    /\ flow_conservation(data, pt)

\* the two sums of obj, as numerators over Den(data) * card(T)
FirstStageTerm(data, pt) ==
    SumOver({i \in data.V : data.nodes[i].is_generator = 1},
            [i \in data.V |-> data.nodes[i].c * pt.p[i]])
RecourseTerm(data, pt) ==
    SumOver(data.T, [t \in data.T |->
        SumOver(WithEnergyType(data.nodes, {"coal", "gas"}), [i \in data.V |->
            2 * data.nodes[i].c * pt.alpha[i] * data.abs_total_imbalance[t]])])
OpfObjective(data, pt) == Cardinality(data.T) * FirstStageTerm(data, pt) + RecourseTerm(data, pt)

OpfLattice(data) ==
    LET ps == Choices(data.V, [i \in data.V |->
                    (data.nodes[i].p_min * Den(data))..(data.nodes[i].p_max * Den(data))])
        alphas == {a \in [data.V -> 0..Den(data)] : SumOver(data.V, a) = Den(data)}
    IN {[p |-> pp, alpha |-> a] : pp \in ps, a \in alphas}

\* solve; with highs and presolve 0: any best feasible point; when there is
\* none the variables are left at a point the solver does not specify
OpfSolve(data) ==
    LET feas == {pt \in OpfLattice(data) : OpfFeasible(data, pt)}
        val == [pt \in feas |-> OpfObjective(data, pt)]
        best == Min({val[pt] : pt \in feas})
    IN IF feas = {}
       THEN {[solve_result |-> "infeasible", p |-> pt.p, alpha |-> pt.alpha,
              obj |-> [num |-> OpfObjective(data, pt), den |-> Den(data) * Cardinality(data.T)]] :
                pt \in OpfLattice(data)}
       ELSE {[solve_result |-> "solved", p |-> pt.p, alpha |-> pt.alpha,
              obj |-> [num |-> best, den |-> Den(data) * Cardinality(data.T)]] :
                pt \in {q \in feas : val[q] = best}}

OPF_participationfactors(network, list, tot, abst, uniform) ==
    LET data == OpfData(network, nimbalances(list), Flatten(list), tot, abst, uniform)
    IN {[model |-> "opf_ldr.mod", data |-> data, instances |-> Instantiate(data),
         solver |-> "highs", presolve |-> 0, result |-> res] : res \in OpfSolve(data)}

\* sum{i in V: is_generator[i]==1} c[i]*p[i], a numerator over Den
get_firststagecost(model) == FirstStageTerm(model.data, model.result)

\* [i[1] for i in model.var["alpha"].get_values()]: the values in the order of V
AlphaValues(model) == [k \in 1..Cardinality(model.data.V) |-> model.result.alpha[k - 1]]

get_averagerecoursecost(model, nodes_df, nT, abst) ==
    LET q_alpha == AlphaValues(model)
    IN [num |-> SumOver(0..(nT - 1), [t \in 0..(nT - 1) |->
                    SumOver(DOMAIN nodes_df, [i \in DOMAIN nodes_df |->
                        2 * nodes_df[i].c * q_alpha[i + 1] * abst[t]])]),
        den |-> nT * Den(model.data)]

AddRatios(a, b) == [num |-> a.num * b.den + b.num * a.den, den |-> a.den * b.den]

\* the calls OPF_participationfactors makes on the instance it creates
OpfCalls(sess) ==
    << Call("read", "opf_ldr.mod"),
       Call("set_data", <<"V", sess.data.nodes>>), Call("set_data", <<"E", sess.data.edges>>),
       Call("set", <<"T", sess.data.T>>), Call("set", <<"SWH", sess.data.SWH>>),
       Call("set", <<"CG", sess.data.CG>>), Call("set", <<"NG", sess.data.NG>>),
       Call("param", <<"abs_total_imbalance", sess.data.abs_total_imbalance>>),
       Call("param", <<"total_imbalance", sess.data.total_imbalance>>),
       Call("param", <<"uniformparticipationfactors", sess.data.uniformparticipationfactors>>),
       Call("param", <<"imbalances", sess.data.imbalances>>),
       Call("option", <<"solver", "highs">>), Call("option", <<"presolve", 0>>),
       Call("solve", [solver |-> "highs",
                      result |-> Banner(sess.result.solve_result, sess.result.obj)]) >>

Writefile_opf_ldr_mod ==
    /\ nb = "opf" /\ pc = "start"
    /\ files' = files \cup {"opf_ldr.mod"}
    /\ pc' = "opf_ldr.mod"
    /\ UNCHANGED <<nb, dataset, params, sessions, popVars, opfVars, ampl, out>>

\* SW, T, seed and the generated scenarios with their totals
Cell_opf_scenarios ==
    /\ nb = "opf" /\ pc = "opf_ldr.mod"
    /\ \E n \in 1..MaxT : \E list \in [1..n -> ScenarioDicts] :
        /\ T' = n
        /\ imbalances' = list
        /\ totalimbalances' = Totals(list)
        /\ abstotalimbalances' = AbsTotals(totalimbalances')
    /\ pc' = "scenarios"
    /\ UNCHANGED <<nb, dataset, params, sessions, popVars, files, ampl, out, zeroimbalances, m,
                   firststagecost, averagerecoursecost>>

Cell_opf_perfect_forecast ==
    /\ nb = "opf" /\ pc = "scenarios" /\ "opf_ldr.mod" \in files
    /\ zeroimbalances' = << [i \in DOMAIN Network.nodes |-> 0] >>
    /\ LET zerototalimbalances == Totals(zeroimbalances')
           zeroabstotalimbalances == AbsTotals(zerototalimbalances)
       IN \E sess \in OPF_participationfactors(Network, zeroimbalances', zerototalimbalances,
                                                zeroabstotalimbalances, TRUE) :
            /\ m' = sess
            /\ sessions' = NewSession(sessions, "opf_ldr.mod",
                                OpfCalls(sess) \o <<Call("get", "firststagecost"), Call("get", "p")>>)
            /\ firststagecost' = get_firststagecost(sess)
            /\ out' = ("First-stage energy production cost" :> firststagecost') @@ out
    /\ pc' = "perfect solved"
    /\ UNCHANGED <<nb, dataset, params, popVars, files, ampl, T, imbalances, totalimbalances,
                   abstotalimbalances, averagerecoursecost>>

Cell_opf_perfect_aggregate ==
    /\ nb = "opf" /\ pc = "perfect solved"
    /\ sessions' = OnSession(sessions, Len(sessions), "opf_ldr.mod",
                    <<Call("get", "alpha"), Call("get", "obj")>>)
    /\ averagerecoursecost' = get_averagerecoursecost(m, Network.nodes, T, abstotalimbalances)
    /\ out' = ("Average energy production cost due to recourse actions" :> averagerecoursecost')
                @@ ("Average total cost" :> AddRatios(m.result.obj, averagerecoursecost'))
                @@ out
    /\ pc' = "perfect aggregated"
    /\ UNCHANGED <<nb, dataset, params, popVars, files, ampl, T, imbalances, totalimbalances,
                   abstotalimbalances, zeroimbalances, m, firststagecost>>

Cell_opf_stochastic_uniform ==
    /\ nb = "opf" /\ pc = "perfect aggregated" /\ "opf_ldr.mod" \in files
    /\ \E sess \in OPF_participationfactors(Network, imbalances, totalimbalances,
                                            abstotalimbalances, TRUE) :
        /\ m' = sess
        /\ sessions' = NewSession(sessions, "opf_ldr.mod",
                        OpfCalls(sess)
                          \o <<Call("get", "p"), Call("get", "alpha"), Call("get", "firststagecost"),
                               Call("get", "alpha"), Call("get", "obj")>>)
        /\ firststagecost' = get_firststagecost(sess)
        /\ averagerecoursecost' = get_averagerecoursecost(sess, Network.nodes, T, abstotalimbalances)
        /\ out' = ("First-stage energy production cost" :> firststagecost')
                    @@ ("Average energy production cost due to recourse actions" :> averagerecoursecost')
                    @@ ("Total cost" :> sess.result.obj) @@ out
    /\ pc' = "uniform solved"
    /\ UNCHANGED <<nb, dataset, params, popVars, files, ampl, T, imbalances, totalimbalances,
                   abstotalimbalances, zeroimbalances>>

Cell_opf_stochastic_optimized ==
    /\ nb = "opf" /\ pc = "uniform solved" /\ "opf_ldr.mod" \in files
    /\ \E sess \in OPF_participationfactors(Network, imbalances, totalimbalances,
                                            abstotalimbalances, FALSE) :
        /\ m' = sess
        /\ sessions' = NewSession(sessions, "opf_ldr.mod",
                        OpfCalls(sess)
                          \o <<Call("get", "p"), Call("get", "alpha"), Call("get", "firststagecost"),
                               Call("get", "alpha"), Call("get", "obj")>>)
        /\ firststagecost' = get_firststagecost(sess)
        /\ averagerecoursecost' = get_averagerecoursecost(sess, Network.nodes, T, abstotalimbalances)
        /\ out' = ("First-stage energy production cost" :> firststagecost')
                    @@ ("Average energy production cost due to recourse actions" :> averagerecoursecost')
                    @@ ("Total cost" :> sess.result.obj) @@ out
    /\ pc' = "done"
    /\ UNCHANGED <<nb, dataset, params, popVars, files, ampl, T, imbalances, totalimbalances,
                   abstotalimbalances, zeroimbalances>>

\* ======================================================================
\* Least absolute deviation regression notebook
\* ======================================================================
MaxSamples == 2
MaxCoordinate == 1

LCM(a, b) == (a * b) \div GCD(a, b)
RECURSIVE LCMUpTo(_)
LCMUpTo(n) == IF n <= 1 THEN 1 ELSE LCM(n, LCMUpTo(n - 1))

\* the data sets: up to MaxSamples samples of one feature (n_features = 1)
\* with small integer coordinates; sample i of the model is row i - 1 of X
Datasets ==
    UNION { [X : [1..n -> 0..MaxCoordinate],
             y : [1..n -> (0 - MaxCoordinate)..MaxCoordinate]] : n \in 1..MaxSamples }

\* m and b are numerators over LadDen: the slope of a line through two
\* samples divides by a difference of two coordinates
LadDen == LCMUpTo(MaxCoordinate)

\* ---- lad_regression.mod ----
\* ep[i] - em[i] == y[i] - sum{j in J}(X[i, j] * m[j]) - b
residuals(data, slope, intercept, i) ==
    data.y[i] * LadDen - data.X[i] * slope - intercept

\* minimize sum_of_abs_errors: sum{i in I}(ep[i] + em[i]); with ep, em >= 0
\* the least value of ep[i] + em[i] for a given line is |residual i|
sum_of_abs_errors(data, slope, intercept) ==
    SumOver(DOMAIN data.X,
            [i \in DOMAIN data.X |-> Abs(residuals(data, slope, intercept, i))])

\* var m{J} >= 0;
m_lower_bound(slope) == slope >= 0

\* the lines through two samples with different coordinates
LinesThroughTwo(data) ==
    {[m |-> ((data.y[ij[1]] - data.y[ij[2]]) * LadDen) \div (data.X[ij[1]] - data.X[ij[2]]),
      b |-> data.y[ij[2]] * LadDen
              - data.X[ij[2]] * (((data.y[ij[1]] - data.y[ij[2]]) * LadDen)
                                   \div (data.X[ij[1]] - data.X[ij[2]]))] :
        ij \in {pq \in (DOMAIN data.X) \X (DOMAIN data.X) : data.X[pq[1]] > data.X[pq[2]]}}

\* the level lines through one sample
LevelThroughOne(data) == {[m |-> 0, b |-> data.y[i] * LadDen] : i \in DOMAIN data.X}

\* the vertices of the model: two of "residual i is zero" and "m is at its
\* bound" fix the line; an optimum of a linear program lies at a vertex
LadVertices(data) ==
    {v \in LinesThroughTwo(data) \cup LevelThroughOne(data) : m_lower_bound(v.m)}

\* ampl.solve(): any optimal vertex
LadSolve(data) ==
    LET best == Min({sum_of_abs_errors(data, v.m, v.b) : v \in LadVertices(data)})
    IN {[solve_result |-> "solved", m |-> v.m, b |-> v.b, objective |-> best] :
            v \in {u \in LadVertices(data) : sum_of_abs_errors(data, u.m, u.b) = best}}

\* def lad_regression(X, y): the instance it returns
lad_regression(data) ==
    {[model |-> "lad_regression.mod",
      data |-> [I |-> DOMAIN data.X, J |-> {0}, y |-> data.y, X |-> data.X],
      solver |-> "highs", result |-> res] : res \in LadSolve(data)}

LadCalls(sess) ==
    << Call("read", "lad_regression.mod"),
       Call("set", <<"I", sess.data.I>>), Call("set", <<"J", sess.data.J>>),
       Call("param", <<"y", sess.data.y>>), Call("param", <<"X", sess.data.X>>) >>
    \o SolveCalls(sess.solver, sess.result)

Writefile_lad_regression_mod ==
    /\ nb = "lad" /\ pc = "start"
    /\ files' = files \cup {"lad_regression.mod"}
    /\ pc' = "lad_regression.mod"
    /\ UNCHANGED <<nb, sessions, dataset, params, popVars, opfVars, ampl, out>>

\* m = lad_regression(X, y); m.display("m"); m.display("b")
Cell_lad_regression ==
    /\ nb = "lad" /\ pc = "lad_regression.mod" /\ "lad_regression.mod" \in files
    /\ \E sess \in lad_regression(dataset) :
        /\ m' = sess
        /\ sessions' = NewSession(sessions, "lad_regression.mod",
                        LadCalls(sess) \o <<Call("display", "m"), Call("display", "b")>>)
        /\ out' = ("m" :> sess.result.m) @@ ("b" :> sess.result.b) @@ out
    /\ pc' = "fitted"
    /\ UNCHANGED <<nb, dataset, params, popVars, opfGlobals, files, ampl>>

\* m_m, m_b and y_fit of the plots
Cell_lad_visualize ==
    /\ nb = "lad" /\ pc = "fitted"
    /\ sessions' = OnSession(sessions, Len(sessions), "lad_regression.mod",
                    <<Call("get", "m"), Call("get", "b")>>)
    /\ out' = ("y_fit" :> [i \in DOMAIN dataset.X |->
                             dataset.X[i] * m.result.m + m.result.b]) @@ out
    /\ pc' = "done"
    /\ UNCHANGED <<nb, dataset, params, popVars, opfVars, files, ampl>>

\* ======================================================================
\* Markowitz portfolio with a chance constraint
\* ======================================================================
MaxReturn == 2
Grid == 2

\* the risky assets, range(n); the notebook has n = 3
Assets == {0, 1}

\* symmetric positive semidefinite matrices with entries 0 and 1
Covariances ==
    {S \in [Assets -> [Assets -> 0..1]] :
        /\ S[0][1] = S[1][0]
        /\ S[0][1] * S[1][0] <= S[0][0] * S[1][1]}

\* alpha, phi_val = norm.ppf(1 - beta) with beta <= 1/2, C, R, mu, Sigma:
\* small integers in place of the notebook's decimals
PortfolioData ==
    [alpha : 0..1, phi_val : 0..1, C : {1}, R : {1},
     mu : [Assets -> 1..MaxReturn], Sigma : Covariances]

\* a portfolio: x_tilde and x[i] are numerators over Grid
Portfolios(par) ==
    [x_tilde : 0..(par.C * Grid), x : [Assets -> 0..(par.C * Grid)]]

MeanReturn(par, pt) == SumOver(Assets, [i \in Assets |-> par.mu[i] * pt.x[i]])

\* sum{i in N, j in N} x[i] * Sigma[i, j] * x[j], over Grid * Grid
Variance(par, pt) ==
    SumOver(Assets \X Assets,
            [ij \in Assets \X Assets |-> pt.x[ij[1]] * par.Sigma[ij[1]][ij[2]] * pt.x[ij[2]]])

\* ---- markowitz_chanceconstraints.mod ----
\* maximize expected_return: sum{i in N} mu[i] * x[i]; over Grid
expected_return(par, pt) == MeanReturn(par, pt)

\* phi_val * (sum{i in N, j in N} x[i] * Sigma[i, j] * x[j])
\*     <= sum{i in N} mu[i] * x[i] - alpha; both sides times Grid * Grid
bounded_variance(par, pt) ==
    par.phi_val * Variance(par, pt) <= Grid * MeanReturn(par, pt) - par.alpha * Grid * Grid

\* sum{i in N} x[i] + x_tilde = C
total_assets(par, pt) ==
    SumOver(Assets, [i \in Assets |-> pt.x[i]]) + pt.x_tilde = par.C * Grid

MkzFeasible(par) ==
    {pt \in Portfolios(par) : bounded_variance(par, pt) /\ total_assets(par, pt)}

\* m.solve(): any best portfolio of the grid; when there is none the
\* variables are left at some values
MkzSolve(par) ==
    IF MkzFeasible(par) = {}
    THEN {[solve_result |-> "infeasible", x_tilde |-> pt.x_tilde, x |-> pt.x,
           objective |-> expected_return(par, pt)] : pt \in Portfolios(par)}
    ELSE LET best == Max({expected_return(par, pt) : pt \in MkzFeasible(par)})
         IN {[solve_result |-> "solved", x_tilde |-> pt.x_tilde, x |-> pt.x,
              objective |-> best] :
                pt \in {q \in MkzFeasible(par) : expected_return(par, q) = best}}

\* def markowitz_chanceconstraints(alpha, beta, mu, Sigma): the instance m
markowitz_chanceconstraints(par) ==
    {[model |-> "markowitz_chanceconstraints.mod",
      data |-> [N |-> Assets, phi_val |-> par.phi_val, alpha |-> par.alpha,
                C |-> par.C, R |-> par.R, mu |-> par.mu, Sigma |-> par.Sigma],
      solver |-> "highs", result |-> res] : res \in MkzSolve(par)}

MkzCalls(sess) ==
    << Call("read", "markowitz_chanceconstraints.mod"),
       Call("set", <<"N", sess.data.N>>),
       Call("param", <<"phi_val", sess.data.phi_val>>),
       Call("param", <<"alpha", sess.data.alpha>>),
       Call("param", <<"C", sess.data.C>>), Call("param", <<"R", sess.data.R>>),
       Call("param", <<"mu", sess.data.mu>>), Call("param", <<"Sigma", sess.data.Sigma>>) >>
    \o SolveCalls(sess.solver, Banner(sess.result.solve_result, sess.result.objective))
    \o << Call("get", "solve_result") >>

Writefile_markowitz_chanceconstraints_mod ==
    /\ nb = "mkz" /\ pc = "start"
    /\ files' = files \cup {"markowitz_chanceconstraints.mod"}
    /\ pc' = "markowitz_chanceconstraints.mod"
    /\ UNCHANGED <<nb, sessions, dataset, params, popVars, opfVars, ampl, out>>

\* result, model = markowitz_chanceconstraints(alpha, beta, mu, Sigma) and
\* the three lines it displays
Cell_markowitz_chanceconstraints ==
    /\ nb = "mkz" /\ pc = "markowitz_chanceconstraints.mod"
    /\ "markowitz_chanceconstraints.mod" \in files
    /\ \E sess \in markowitz_chanceconstraints(params) :
        /\ m' = sess
        /\ sessions' = NewSession(sessions, "markowitz_chanceconstraints.mod",
                        MkzCalls(sess)
                          \o <<Call("get", "x_tilde"), Call("get", "x"),
                               Call("get", "expected_return")>>)
        /\ out' = ("Solver result" :> sess.result.solve_result)
                    @@ ("Solution" :> [x_tilde |-> sess.result.x_tilde, x |-> sess.result.x])
                    @@ ("Maximizes objective value to" :> sess.result.objective) @@ out
    /\ pc' = "done"
    /\ UNCHANGED <<nb, dataset, params, popVars, opfGlobals, files, ampl>>

\* ======================================================================
\* 03/bim-perturbed.ipynb
\* ======================================================================
\* ---- programs in two variables, solved exactly ----
\* the rows and bounds of lp as half planes <<a1, a2, b>>: a1*v1 + a2*v2 <= b
HalfPlanes(lp) ==
    {<<lp.rows[k].coef[1], lp.rows[k].coef[2], lp.rows[k].rhs>> :
        k \in {j \in 1..Len(lp.rows) : lp.rows[j].op = "<="}}
    \cup {<<0 - lp.rows[k].coef[1], 0 - lp.rows[k].coef[2], 0 - lp.rows[k].rhs>> :
        k \in {j \in 1..Len(lp.rows) : lp.rows[j].op = ">="}}
    \cup {<<-1, 0, 0 - lp.lo[1]>>, <<0, -1, 0 - lp.lo[2]>>}
    \cup {<<1, 0, h>> : h \in lp.hi[1]} \cup {<<0, 1, h>> : h \in lp.hi[2]}

Det(h, k) == h[1] * k[2] - h[2] * k[1]

\* the point where the border lines of h and k meet, by Cramer's rule, as
\* numerators over a positive den in lowest terms
Meet(h, k) ==
    LET d == Det(h, k)
        sg == IF d < 0 THEN -1 ELSE 1
        n1 == sg * (h[3] * k[2] - h[2] * k[3])
        n2 == sg * (h[1] * k[3] - h[3] * k[1])
        g == GCD(GCD(Abs(n1), Abs(n2)), Abs(d))
    IN [x |-> <<n1 \div g, n2 \div g>>, den |-> Abs(d) \div g]

Inside(planes, v) == \A h \in planes : h[1] * v.x[1] + h[2] * v.x[2] <= h[3] * v.den

Vertices(lp) ==
    LET planes == HalfPlanes(lp)
    IN {v \in {Meet(hk[1], hk[2]) : hk \in {pq \in planes \X planes : Det(pq[1], pq[2]) # 0}} :
            Inside(planes, v)}

\* v is at least as good as u for the objective of lp
AsGoodAs(lp, v, u) ==
    IF lp.sense = "maximize"
    THEN Dot(lp.obj, v.x) * u.den >= Dot(lp.obj, u.x) * v.den
    ELSE Dot(lp.obj, v.x) * u.den <= Dot(lp.obj, u.x) * v.den

\* solve on a linear program with a bounded feasible region: any best vertex
VertexSolve(lp) ==
    LET vs == Vertices(lp)
    IN IF vs = {} THEN {[solve_result |-> "infeasible"]}
       ELSE {[solve_result |-> "solved", objective |-> Dot(lp.obj, v.x), x |-> v.x,
              den |-> v.den] : v \in {q \in vs : \A u \in vs : AsGoodAs(lp, q, u)}}

\* the whole numbers v2 can take next to v1 are Lower..Upper, none when v1
\* itself breaks a row without v2
Blocked(planes, v1) == \E h \in planes : h[2] = 0 /\ h[1] * v1 > h[3]
Upper(planes, v1, cap) ==
    Min({(h[3] - h[1] * v1) \div h[2] : h \in {q \in planes : q[2] > 0}} \cup {cap})
Lower(planes, v1) ==
    Max({0 - ((h[3] - h[1] * v1) \div (0 - h[2])) : h \in {q \in planes : q[2] < 0}} \cup {0})

\* solve on a program in two integer variables: any best whole point; the
\* objective is linear, so next to each v1 a best v2 is an end of its
\* interval unless v2 is not in the objective
IntegerSolve(lp, caps) ==
    LET planes == HalfPlanes(lp)
        ends == UNION {LET lw == Lower(planes, v1)
                           up == Upper(planes, v1, caps[2])
                       IN IF Blocked(planes, v1) \/ lw > up THEN {}
                          ELSE IF lp.obj[2] = 0 THEN {<<v1, v2>> : v2 \in lw..up}
                          ELSE {<<v1, lw>>, <<v1, up>>} : v1 \in 0..caps[1]}
        values == {Dot(lp.obj, pt) : pt \in ends}
        best == IF lp.sense = "maximize" THEN Max(values) ELSE Min(values)
    IN IF ends = {} THEN {[solve_result |-> "infeasible"]}
       ELSE {[solve_result |-> "solved", objective |-> best, x |-> pt, den |-> 1] :
                pt \in {q \in ends : Dot(lp.obj, q) = best}}

\* "{:.3f}".format(v): v in thousandths, rounded to nearest
Format3f(num, den) ==
    (num \div den) * 1000 + (2 * 1000 * (num % den) + den) \div (2 * den)

\* BIM_perturbed_LO.mod; the copper row 4.04 * x1 + 2.02 * x2 <= 4800 is
\* kept in hundredths
BIM_perturbed_LO ==
    [names |-> <<"x1", "x2">>, lo |-> <<0, 0>>, hi |-> <<{}, {}>>,
     sense |-> "maximize", objname |-> "profit", obj |-> <<12, 9>>,
     rows |-> << [name |-> "silicon",   coef |-> <<1, 0>>, op |-> "<=", rhs |-> 1000],
                 [name |-> "germanium", coef |-> <<0, 1>>, op |-> "<=", rhs |-> 1500],
                 [name |-> "plastic",   coef |-> <<1, 1>>, op |-> "<=", rhs |-> 1750],
                 [name |-> "copper",    coef |-> <<404, 202>>, op |-> "<=", rhs |-> 480000] >>]

\* the integer model with the copper row of the original BIM model
BIM_unperturbed_MILO ==
    [BIM_perturbed_LO EXCEPT !.rows[4] =
        [name |-> "copper", coef |-> <<4, 2>>, op |-> "<=", rhs |-> 4800]]

\* BIM_perturbed_MILO.mod: the same rows, var x1 integer >= 0; var x2 integer >= 0
BIM_perturbed_MILO == BIM_perturbed_LO

Report3f(res) ==
    [x |-> <<Format3f(res.x[1], res.den), Format3f(res.x[2], res.den)>>,
     value |-> Format3f(res.objective, res.den)]

Writefile_BIM_perturbed_LO_mod ==
    /\ nb = "bimp" /\ pc = "start"
    /\ files' = files \cup {"BIM_perturbed_LO.mod"}
    /\ pc' = "BIM_perturbed_LO.mod"
    /\ UNCHANGED <<nb, sessions, dataset, params, popVars, opfVars, ampl, out>>

Cell_BIM_perturbed_LO ==
    /\ nb = "bimp" /\ pc = "BIM_perturbed_LO.mod" /\ "BIM_perturbed_LO.mod" \in files
    /\ \E res \in VertexSolve(BIM_perturbed_LO) :
        /\ m' = [model |-> "BIM_perturbed_LO.mod", lp |-> BIM_perturbed_LO,
                  solver |-> "highs", result |-> res]
        /\ sessions' = NewSession(sessions, "BIM_perturbed_LO.mod",
                        <<Call("read", "BIM_perturbed_LO.mod")>> \o SolveCalls("highs", res)
                          \o <<Call("get", "x1"), Call("get", "x2"), Call("get", "profit")>>)
        /\ out' = ("LO" :> Report3f(res)) @@ out
    /\ pc' = "LO solved"
    /\ UNCHANGED <<nb, dataset, params, popVars, opfGlobals, files, ampl>>

Writefile_BIM_perturbed_MILO_mod ==
    /\ nb = "bimp" /\ pc = "LO solved"
    /\ files' = files \cup {"BIM_perturbed_MILO.mod"}
    /\ pc' = "BIM_perturbed_MILO.mod"
    /\ UNCHANGED <<nb, sessions, dataset, params, popVars, opfVars, ampl, out>>

Cell_BIM_perturbed_MILO ==
    /\ nb = "bimp" /\ pc = "BIM_perturbed_MILO.mod" /\ "BIM_perturbed_MILO.mod" \in files
    /\ \E res \in IntegerSolve(BIM_perturbed_MILO, PackCaps(BIM_perturbed_MILO)) :
        /\ m' = [model |-> "BIM_perturbed_MILO.mod", lp |-> BIM_perturbed_MILO,
                  solver |-> "highs", result |-> res]
        /\ sessions' = NewSession(sessions, "BIM_perturbed_MILO.mod",
                        <<Call("read", "BIM_perturbed_MILO.mod")>> \o SolveCalls("highs", res)
                          \o <<Call("get", "x1"), Call("get", "x2"), Call("get", "profit")>>)
        /\ out' = ("MILO" :> Report3f(res)) @@ out
    /\ pc' = "done"
    /\ UNCHANGED <<nb, dataset, params, popVars, opfGlobals, files, ampl>>

\* ======================================================================
\* 02/bim.ipynb, revenues and costs: these cells build their own AMPL
\* instances and share nothing with the cells above them
\* ======================================================================
\* "{:.1f}", "{:.2f}", "{:.3f}": scale is 10, 100, 1000
FormatFixed(num, den, scale) ==
    (num \div den) * scale + (2 * scale * (num % den) + den) \div (2 * den)

\* ---- programs in three variables, solved exactly ----
\* rows and bounds as half spaces <<a1, a2, a3, b>>: a1*v1 + a2*v2 + a3*v3 <= b;
\* an equality row is both of its half spaces; lo[i] and hi[i] hold the
\* bound of variable i, or nothing for a variable declared without it
HalfSpaces(lp) ==
    LET le(k) == <<lp.rows[k].coef[1], lp.rows[k].coef[2], lp.rows[k].coef[3], lp.rows[k].rhs>>
        ge(k) == <<0 - lp.rows[k].coef[1], 0 - lp.rows[k].coef[2], 0 - lp.rows[k].coef[3],
                   0 - lp.rows[k].rhs>>
    IN {le(k) : k \in {j \in 1..Len(lp.rows) : lp.rows[j].op \in {"<=", "="}}}
       \cup {ge(k) : k \in {j \in 1..Len(lp.rows) : lp.rows[j].op \in {">=", "="}}}
       \cup {<<-1, 0, 0, 0 - b>> : b \in lp.lo[1]} \cup {<<1, 0, 0, b>> : b \in lp.hi[1]}
       \cup {<<0, -1, 0, 0 - b>> : b \in lp.lo[2]} \cup {<<0, 1, 0, b>> : b \in lp.hi[2]}
       \cup {<<0, 0, -1, 0 - b>> : b \in lp.lo[3]} \cup {<<0, 0, 1, b>> : b \in lp.hi[3]}

Det3(p, q, s) ==
    p[1] * (q[2] * s[3] - q[3] * s[2]) - p[2] * (q[1] * s[3] - q[3] * s[1])
        + p[3] * (q[1] * s[2] - q[2] * s[1])

\* h with its i-th coefficient replaced by its right hand side
Replaced(h, i) == [j \in 1..3 |-> IF j = i THEN h[4] ELSE h[j]]

\* the point where the border planes of p, q and s meet, by Cramer's rule
Meet3(p, q, s) ==
    LET d == Det3(p, q, s)
        sg == IF d < 0 THEN -1 ELSE 1
        n == [i \in 1..3 |-> sg * Det3(Replaced(p, i), Replaced(q, i), Replaced(s, i))]
        g == GCD(GCD(GCD(Abs(n[1]), Abs(n[2])), Abs(n[3])), Abs(d))
    IN [x |-> <<n[1] \div g, n[2] \div g, n[3] \div g>>, den |-> Abs(d) \div g]

Inside3(spaces, v) ==
    \A h \in spaces : h[1] * v.x[1] + h[2] * v.x[2] + h[3] * v.x[3] <= h[4] * v.den

Corners(lp) ==
    LET spaces == HalfSpaces(lp)
    IN {Meet3(t3[1], t3[2], t3[3]) :
            t3 \in {pqs \in spaces \X spaces \X spaces : Det3(pqs[1], pqs[2], pqs[3]) # 0}}

VertexSolve3(lp) ==
    LET vs == {v \in Corners(lp) : Inside3(HalfSpaces(lp), v)}
    IN IF vs = {} THEN {[solve_result |-> "infeasible"]}
       ELSE {[solve_result |-> "solved", objective |-> Dot(lp.obj, v.x), x |-> v.x,
              den |-> v.den] : v \in {q \in vs : \A u \in vs : AsGoodAs(lp, q, u)}}

\* 7/6 and 5/6 are kept in sixths
Sixths == 6

\* BIM_with_revenues_minus_costs.mod: profit is revenue - variable_cost -
\* fixed_cost, in sixths 65 * x1 + 49 * x2 - 600
fixed_cost == 100
revenue(v) == 12 * v[1] + 9 * v[2]
variable_cost_sixths(v) == 7 * v[1] + 5 * v[2]
BIM_with_revenues_minus_costs ==
    [names |-> <<"x1", "x2">>, lo |-> <<0, 0>>, hi |-> <<{}, {}>>,
     sense |-> "maximize", objname |-> "profit",
     obj |-> <<Sixths * 12 - 7, Sixths * 9 - 5>>, const |-> 0 - Sixths * fixed_cost,
     rows |-> BimPrimal.rows]

\* the reformulation with silicon left unscaled, y1 <= 1000
BIM_with_revenues_over_costs_silicon_unscaled ==
    [names |-> <<"y1", "y2", "t">>, lo |-> <<{0}, {0}, {0}>>, hi |-> <<{}, {}, {}>>,
     sense |-> "maximize", objname |-> "profit", obj |-> <<12, 9, 0>>,
     rows |-> << [name |-> "silicon",   coef |-> <<1, 0, 0>>, op |-> "<=", rhs |-> 1000],
                 [name |-> "germanium", coef |-> <<0, 1, -1500>>, op |-> "<=", rhs |-> 0],
                 [name |-> "plastic",   coef |-> <<1, 1, -1750>>, op |-> "<=", rhs |-> 0],
                 [name |-> "copper",    coef |-> <<4, 2, -4800>>, op |-> "<=", rhs |-> 0],
                 [name |-> "frac", coef |-> <<7, 5, Sixths * fixed_cost>>, op |-> "=",
                  rhs |-> Sixths] >>]

\* BIM_with_revenues_over_costs.mod over y1, y2, t; the row frac,
\* variable_cost + fixed_cost * t == 1, is kept in sixths
BIM_with_revenues_over_costs ==
    [names |-> <<"y1", "y2", "t">>, lo |-> <<{0}, {0}, {0}>>, hi |-> <<{}, {}, {}>>,
     sense |-> "maximize", objname |-> "profit", obj |-> <<12, 9, 0>>,
     rows |-> << [name |-> "silicon",   coef |-> <<1, 0, -1000>>, op |-> "<=", rhs |-> 0],
                 [name |-> "germanium", coef |-> <<0, 1, -1500>>, op |-> "<=", rhs |-> 0],
                 [name |-> "plastic",   coef |-> <<1, 1, -1750>>, op |-> "<=", rhs |-> 0],
                 [name |-> "copper",    coef |-> <<4, 2, -4800>>, op |-> "<=", rhs |-> 0],
                 [name |-> "frac", coef |-> <<7, 5, Sixths * fixed_cost>>, op |-> "=",
                  rhs |-> Sixths] >>]

\* the line printed for BIM_linear
PrintLinear(res) ==
    [x |-> <<FormatFixed(res.x[1], res.den, 10), FormatFixed(res.x[2], res.den, 10)>>,
     value |-> FormatFixed(res.objective, Sixths * res.den, 1000),
     revenue |-> FormatFixed(revenue(res.x), res.den, 100),
     cost |-> FormatFixed(variable_cost_sixths(res.x) + Sixths * fixed_cost * res.den,
                          Sixths * res.den, 100)]

\* the line printed for BIM_fractional: y1 / t, y2 / t,
\* profit / (variable_cost + fixed_cost * t), revenue / t,
\* variable_cost / t + fixed_cost
PrintFractional(res) ==
    [x |-> <<FormatFixed(res.x[1], res.x[3], 10), FormatFixed(res.x[2], res.x[3], 10)>>,
     value |-> FormatFixed(Sixths * res.objective,
                           variable_cost_sixths(res.x) + Sixths * fixed_cost * res.x[3], 1000),
     revenue |-> FormatFixed(revenue(res.x), res.x[3], 100),
     cost |-> FormatFixed(variable_cost_sixths(res.x) + Sixths * fixed_cost * res.x[3],
                          Sixths * res.x[3], 100)]

Writefile_BIM_with_revenues_minus_costs_mod ==
    /\ nb = "bimrc" /\ pc = "start"
    /\ files' = files \cup {"BIM_with_revenues_minus_costs.mod"}
    /\ pc' = "BIM_with_revenues_minus_costs.mod"
    /\ UNCHANGED <<nb, sessions, dataset, params, popVars, opfVars, ampl, out>>

Cell_BIM_linear ==
    /\ nb = "bimrc" /\ pc = "BIM_with_revenues_minus_costs.mod"
    /\ "BIM_with_revenues_minus_costs.mod" \in files
    /\ \E v \in VertexSolve(BIM_with_revenues_minus_costs) :
        LET res == [v EXCEPT !.objective = @ + BIM_with_revenues_minus_costs.const * v.den]
        IN /\ m' = [model |-> "BIM_with_revenues_minus_costs.mod",
                     lp |-> BIM_with_revenues_minus_costs, solver |-> "highs", result |-> res]
           /\ sessions' = NewSession(sessions, "BIM_with_revenues_minus_costs.mod",
                    <<Call("read", "BIM_with_revenues_minus_costs.mod")>>
                      \o SolveCalls("highs", res)
                      \o <<Call("get", "x1"), Call("get", "x2"), Call("get", "profit"),
                            Call("get", "revenue"), Call("get", "variable_cost"),
                            Call("get", "fixed_cost")>>)
           /\ out' = ("linear" :> PrintLinear(res)) @@ out
    /\ pc' = "linear solved"
    /\ UNCHANGED <<nb, dataset, params, popVars, opfGlobals, files, ampl>>

Writefile_BIM_with_revenues_over_costs_mod ==
    /\ nb = "bimrc" /\ pc = "linear solved"
    /\ files' = files \cup {"BIM_with_revenues_over_costs.mod"}
    /\ pc' = "BIM_with_revenues_over_costs.mod"
    /\ UNCHANGED <<nb, sessions, dataset, params, popVars, opfVars, ampl, out>>

\* a solution with t = 0 makes y1 / t raise ZeroDivisionError: nothing is printed
Cell_BIM_fractional ==
    /\ nb = "bimrc" /\ pc = "BIM_with_revenues_over_costs.mod"
    /\ "BIM_with_revenues_over_costs.mod" \in files
    /\ \E res \in VertexSolve3(BIM_with_revenues_over_costs) :
        /\ m' = [model |-> "BIM_with_revenues_over_costs.mod",
                  lp |-> BIM_with_revenues_over_costs, solver |-> "highs", result |-> res]
        /\ sessions' = NewSession(sessions, "BIM_with_revenues_over_costs.mod",
                    <<Call("read", "BIM_with_revenues_over_costs.mod")>>
                      \o SolveCalls("highs", res)
                      \o <<Call("get", "t"), Call("get", "y1"), Call("get", "y2"),
                            Call("get", "profit"), Call("get", "variable_cost"),
                            Call("get", "fixed_cost"), Call("get", "revenue")>>)
        /\ out' = IF res.solve_result = "solved" /\ res.x[3] # 0
                  THEN ("fractional" :> PrintFractional(res)) @@ out
                  ELSE out
    /\ pc' = "done"
    /\ UNCHANGED <<nb, dataset, params, popVars, opfGlobals, files, ampl>>

\* ======================================================================
\* 03/simple-production-model-gdp.ipynb
\* ======================================================================
M == 10000

\* multi_product_factory.mod over profit, production_x, production_y
multi_product_factory ==
    [names |-> <<"profit", "production_x", "production_y">>,
     lo |-> <<{}, {0}, {0}>>, hi |-> <<{}, {}, {}>>,
     sense |-> "maximize", objname |-> "maximize_profit", obj |-> <<1, 0, 0>>,
     rows |-> << [name |-> "profit_expr", coef |-> <<1, -40, -30>>, op |-> "=", rhs |-> 0],
                 [name |-> "demand", coef |-> <<0, 1, 0>>, op |-> "<=", rhs |-> 40],
                 [name |-> "laborA", coef |-> <<0, 1, 1>>, op |-> "<=", rhs |-> 80],
                 [name |-> "laborB", coef |-> <<0, 2, 1>>, op |-> "<=", rhs |-> 100] >>]

\* multi_product_factory_milo.mod over profit, production_x, production_y, z
\* with the terms in z on the left; laborB_2, 1.5 * production_x +
\* production_y <= 100 + M * (1 - z), is doubled
multi_product_factory_milo ==
    [names |-> <<"profit", "production_x", "production_y", "z">>,
     lo |-> <<{}, {0}, {0}, {0}>>, hi |-> <<{}, {}, {}, {1}>>, integer |-> {4},
     sense |-> "maximize", objname |-> "maximize_profit", obj |-> <<1, 0, 0, 0>>,
     rows |-> << [name |-> "profit_constr_1", coef |-> <<1, -40, -30, 0 - M>>, op |-> "<=",
                  rhs |-> 0],
                 [name |-> "profit_constr_2", coef |-> <<1, -60, -30, M>>, op |-> "<=",
                  rhs |-> M],
                 [name |-> "demand", coef |-> <<0, 1, 0, 0>>, op |-> "<=", rhs |-> 40],
                 [name |-> "laborA", coef |-> <<0, 1, 1, 0>>, op |-> "<=", rhs |-> 80],
                 [name |-> "laborB_1", coef |-> <<0, 2, 1, 0 - M>>, op |-> "<=", rhs |-> 100],
                 [name |-> "laborB_2", coef |-> <<0, 3, 2, 2 * M>>, op |-> "<=",
                  rhs |-> 200 + 2 * M] >>]

\* lp with its fourth variable held at zv
Fixed(lp, zv) ==
    [names |-> SubSeq(lp.names, 1, 3), lo |-> SubSeq(lp.lo, 1, 3), hi |-> SubSeq(lp.hi, 1, 3),
     sense |-> lp.sense, objname |-> lp.objname, obj |-> SubSeq(lp.obj, 1, 3),
     rows |-> [k \in 1..Len(lp.rows) |->
                 [name |-> lp.rows[k].name, coef |-> SubSeq(lp.rows[k].coef, 1, 3),
                  op |-> lp.rows[k].op, rhs |-> lp.rows[k].rhs - lp.rows[k].coef[4] * zv]]]

\* solve on a program whose fourth variable is binary: branch on it, solve
\* each branch exactly, return any best point of the branches
BranchSolve(lp) ==
    LET found == UNION {{[solve_result |-> "solved", objective |-> res.objective,
                          x |-> res.x \o <<zv * res.den>>, den |-> res.den] :
                            res \in {q \in VertexSolve3(Fixed(lp, zv)) :
                                        q.solve_result = "solved"}} : zv \in 0..1}
    IN IF found = {} THEN {[solve_result |-> "infeasible"]}
       ELSE {res \in found : \A u \in found : res.objective * u.den >= u.objective * res.den}

\* multi_product_factory_milo_disjunctive.mod over profit, x, y: the rows
\* demand and laborA, and the logical constraint technologies over the two
\* blocks below (1.5 * x + y <= 100 doubled)
multi_product_factory_milo_disjunctive ==
    [names |-> <<"profit", "x", "y">>,
     lo |-> <<{-1000}, {0}, {0}>>, hi |-> <<{10000}, {1000}, {1000}>>,
     sense |-> "maximize", objname |-> "maximize_profit", obj |-> <<1, 0, 0>>,
     rows |-> << [name |-> "demand", coef |-> <<0, 1, 0>>, op |-> "<=", rhs |-> 40],
                 [name |-> "laborA", coef |-> <<0, 1, 1>>, op |-> "<=", rhs |-> 80] >>]

Block_alpha ==
    << [name |-> "profit", coef |-> <<1, -40, -30>>, op |-> "=", rhs |-> 0],
       [name |-> "labor", coef |-> <<0, 2, 1>>, op |-> "<=", rhs |-> 100] >>
Block_beta ==
    << [name |-> "profit", coef |-> <<1, -60, -30>>, op |-> "=", rhs |-> 0],
       [name |-> "labor", coef |-> <<0, 3, 2>>, op |-> "<=", rhs |-> 200] >>

RowHolds3(row, v) ==
    LET lhs == Dot(row.coef, v.x)
    IN CASE row.op = "<=" -> lhs <= row.rhs * v.den
         [] row.op = ">=" -> lhs >= row.rhs * v.den
         [] row.op = "="  -> lhs = row.rhs * v.den
BlockHolds(block, v) == \A k \in 1..Len(block) : RowHolds3(block[k], v)
technology_alpha(v) == BlockHolds(Block_alpha, v)
technology_beta(v) == BlockHolds(Block_beta, v)
\* the constraint with its first block alone
technologies_alpha_only(v) == technology_alpha(v)
\* (alpha or beta) and not (alpha and beta)
technologies(v) ==
    /\ technology_alpha(v) \/ technology_beta(v)
    /\ ~(technology_alpha(v) /\ technology_beta(v))

\* solve on the disjunctive program: the best corners of the two blocks; a
\* best corner that technologies excludes leaves a supremum that no point
\* attains, and the solve fails
DisjunctiveSolve(lp) ==
    LET with(block) == [lp EXCEPT !.rows = @ \o block]
        either == {v \in Corners(with(Block_alpha)) :
                        Inside3(HalfSpaces(with(Block_alpha)), v)}
                  \cup {v \in Corners(with(Block_beta)) :
                        Inside3(HalfSpaces(with(Block_beta)), v)}
        best == {q \in either : \A u \in either : AsGoodAs(lp, q, u)}
    IN IF either = {} THEN {[solve_result |-> "infeasible"]}
       ELSE IF \A v \in best : ~technologies(v) THEN {[solve_result |-> "failure"]}
       ELSE {[solve_result |-> "solved", objective |-> Dot(lp.obj, v.x), x |-> v.x,
              den |-> v.den] : v \in {q \in best : technologies(q)}}

\* the three lines printed after a solve: the profit with "{:.2f}", the two
\* productions as they are
PrintFactory(res) ==
    [Profit |-> FormatFixed(res.x[1], res.den, 100),
     X |-> <<res.x[2], res.den>>, Y |-> <<res.x[3], res.den>>]

FactoryCalls(file, res, names) ==
    <<Call("read", file)>> \o SolveCalls("highs", res)
        \o [k \in 1..Len(names) |-> Call("get", names[k])]

Writefile_multi_product_factory_mod ==
    /\ nb = "gdp" /\ pc = "start"
    /\ files' = files \cup {"multi_product_factory.mod"}
    /\ pc' = "multi_product_factory.mod"
    /\ UNCHANGED <<nb, sessions, dataset, params, popVars, opfVars, ampl, out>>

Cell_multi_product_factory ==
    /\ nb = "gdp" /\ pc = "multi_product_factory.mod"
    /\ "multi_product_factory.mod" \in files
    /\ \E res \in VertexSolve3(multi_product_factory) :
        /\ m' = [model |-> "multi_product_factory.mod", lp |-> multi_product_factory,
                  solver |-> "highs", result |-> res]
        /\ sessions' = NewSession(sessions, "multi_product_factory.mod",
                FactoryCalls("multi_product_factory.mod", res,
                             <<"profit", "production_x", "production_y">>))
        /\ out' = IF res.solve_result = "solved"
                  THEN ("multi_product_factory" :> PrintFactory(res)) @@ out ELSE out
    /\ pc' = "multi_product_factory solved"
    /\ UNCHANGED <<nb, dataset, params, popVars, opfGlobals, files, ampl>>

Writefile_multi_product_factory_milo_mod ==
    /\ nb = "gdp" /\ pc = "multi_product_factory solved"
    /\ files' = files \cup {"multi_product_factory_milo.mod"}
    /\ pc' = "multi_product_factory_milo.mod"
    /\ UNCHANGED <<nb, sessions, dataset, params, popVars, opfVars, ampl, out>>

Cell_multi_product_factory_milo ==
    /\ nb = "gdp" /\ pc = "multi_product_factory_milo.mod"
    /\ "multi_product_factory_milo.mod" \in files
    /\ \E res \in BranchSolve(multi_product_factory_milo) :
        /\ m' = [model |-> "multi_product_factory_milo.mod",
                  lp |-> multi_product_factory_milo, solver |-> "highs", result |-> res]
        /\ sessions' = NewSession(sessions, "multi_product_factory_milo.mod",
                FactoryCalls("multi_product_factory_milo.mod", res,
                             <<"profit", "production_x", "production_y">>))
        /\ out' = IF res.solve_result = "solved"
                  THEN ("multi_product_factory_milo" :> PrintFactory(res)) @@ out ELSE out
    /\ pc' = "multi_product_factory_milo solved"
    /\ UNCHANGED <<nb, dataset, params, popVars, opfGlobals, files, ampl>>

Writefile_multi_product_factory_milo_disjunctive_mod ==
    /\ nb = "gdp" /\ pc = "multi_product_factory_milo solved"
    /\ files' = files \cup {"multi_product_factory_milo_disjunctive.mod"}
    /\ pc' = "multi_product_factory_milo_disjunctive.mod"
    /\ UNCHANGED <<nb, sessions, dataset, params, popVars, opfVars, ampl, out>>

Cell_multi_product_factory_milo_disjunctive ==
    /\ nb = "gdp" /\ pc = "multi_product_factory_milo_disjunctive.mod"
    /\ "multi_product_factory_milo_disjunctive.mod" \in files
    /\ \E res \in DisjunctiveSolve(multi_product_factory_milo_disjunctive) :
        /\ m' = [model |-> "multi_product_factory_milo_disjunctive.mod",
                  lp |-> multi_product_factory_milo_disjunctive, solver |-> "highs",
                  result |-> res]
        /\ sessions' = NewSession(sessions, "multi_product_factory_milo_disjunctive.mod",
                FactoryCalls("multi_product_factory_milo_disjunctive.mod", res,
                             <<"profit", "x", "y">>))
        /\ out' = IF res.solve_result = "solved"
                  THEN ("multi_product_factory_milo_disjunctive" :> PrintFactory(res)) @@ out
                  ELSE out
    /\ pc' = "done"
    /\ UNCHANGED <<nb, dataset, params, popVars, opfGlobals, files, ampl>>

NoOutput == [k \in {} |-> 0]
NoData == [X |-> <<>>, y |-> <<>>]
NoParams == [k \in {} |-> 0]

\* the globals of a notebook that does not define them
PopIdle ==
    /\ r = 0 /\ c = 0 /\ w = 0 /\ scenarios = <<>>
    /\ df = <<>> /\ expected_demand = 0 /\ EVM = 0 /\ scenarios_df = <<>>

OpfIdle ==
    /\ T = 0 /\ imbalances = <<>> /\ totalimbalances = <<>> /\ abstotalimbalances = <<>>
    /\ zeroimbalances = <<>> /\ m = EmptySession
    /\ firststagecost = 0 /\ averagerecoursecost = 0

InitPop ==
    /\ nb = "pop" /\ pc = "start"
    /\ \E p \in Prices : r = p.r /\ c = p.c /\ w = p.w
    /\ scenarios \in GenericScenarios
    /\ df = <<>> /\ expected_demand = 0 /\ EVM = 0 /\ scenarios_df = <<>>
    /\ files = {} /\ ampl = EmptySession /\ out = NoOutput
    /\ sessions = <<FreshSession>>
    /\ dataset = NoData /\ params = NoParams
    /\ OpfIdle

InitPopNotebook ==
    /\ nb = "pop" /\ pc = "start"
    /\ r = 40 /\ c = 12 /\ w = 2
    /\ scenarios = NotebookScenarios
    /\ df = <<>> /\ expected_demand = 0 /\ EVM = 0 /\ scenarios_df = <<>>
    /\ files = {} /\ ampl = EmptySession /\ out = NoOutput
    /\ sessions = <<FreshSession>>
    /\ dataset = NoData /\ params = NoParams
    /\ OpfIdle

InitBim ==
    /\ nb = "bim" /\ pc = "start"
    /\ PopIdle
    /\ files = {} /\ ampl = EmptySession /\ out = NoOutput
    /\ sessions = <<FreshSession>>
    /\ dataset = NoData /\ params = NoParams
    /\ OpfIdle

InitProd ==
    /\ nb = "prod" /\ pc = "start"
    /\ PopIdle
    /\ files = {} /\ ampl = EmptySession /\ out = NoOutput
    /\ sessions = <<FreshSession>>
    /\ dataset = NoData /\ params = NoParams
    /\ OpfIdle

InitOpf ==
    /\ nb = "opf" /\ pc = "start"
    /\ PopIdle
    /\ files = {} /\ ampl = EmptySession /\ out = NoOutput
    /\ sessions = <<FreshSession>>
    /\ dataset = NoData /\ params = NoParams
    /\ OpfIdle

InitLad ==
    /\ nb = "lad" /\ pc = "start"
    /\ PopIdle
    /\ files = {} /\ ampl = EmptySession /\ out = NoOutput
    /\ sessions = <<FreshSession>>
    /\ dataset \in Datasets /\ params = NoParams
    /\ OpfIdle

InitMkz ==
    /\ nb = "mkz" /\ pc = "start"
    /\ PopIdle
    /\ files = {} /\ ampl = EmptySession /\ out = NoOutput
    /\ sessions = <<FreshSession>>
    /\ dataset = NoData /\ params \in PortfolioData
    /\ OpfIdle

InitBimPerturbed ==
    /\ nb = "bimp" /\ pc = "start"
    /\ PopIdle
    /\ files = {} /\ ampl = EmptySession /\ out = NoOutput
    /\ sessions = <<FreshSession>>
    /\ dataset = NoData /\ params = NoParams
    /\ OpfIdle

InitBimRevenuesCosts ==
    /\ nb = "bimrc" /\ pc = "start"
    /\ PopIdle
    /\ files = {} /\ ampl = EmptySession /\ out = NoOutput
    /\ sessions = <<FreshSession>>
    /\ dataset = NoData /\ params = NoParams
    /\ OpfIdle

InitFactory ==
    /\ nb = "gdp" /\ pc = "start"
    /\ PopIdle
    /\ files = {} /\ ampl = EmptySession /\ out = NoOutput
    /\ sessions = <<FreshSession>>
    /\ dataset = NoData /\ params = NoParams
    /\ OpfIdle

Init == InitPop \/ InitPopNotebook \/ InitBim \/ InitProd \/ InitOpf \/ InitLad \/ InitMkz
          \/ InitBimPerturbed \/ InitBimRevenuesCosts
          \/ InitFactory

Next ==
    \/ Cell_expected_demand
    \/ Cell_EVM
    \/ Writefile_pop_mod
    \/ Cell_solve_pop
    \/ Writefile_pop_evpi_mod
    \/ Cell_solve_pop_evpi
    \/ Cell_bim_model
    \/ Cell_bim_solve
    \/ Writefile_bim_dual_mod
    \/ Cell_bim_dual_solve
    \/ Cell_prod_variables
    \/ Cell_prod_objective
    \/ Cell_prod_constraints
    \/ Cell_prod_solve
    \/ Cell_prod_report
    \/ Writefile_production_planning_basic_mod
    \/ Cell_prod_solve_file
    \/ Writefile_opf_ldr_mod
    \/ Cell_opf_scenarios
    \/ Cell_opf_perfect_forecast
    \/ Cell_opf_perfect_aggregate
    \/ Cell_opf_stochastic_uniform
    \/ Cell_opf_stochastic_optimized
    \/ Writefile_lad_regression_mod
    \/ Cell_lad_regression
    \/ Cell_lad_visualize
    \/ Writefile_markowitz_chanceconstraints_mod
    \/ Cell_markowitz_chanceconstraints
    \/ Writefile_BIM_perturbed_LO_mod
    \/ Cell_BIM_perturbed_LO
    \/ Writefile_BIM_perturbed_MILO_mod
    \/ Cell_BIM_perturbed_MILO
    \/ Writefile_BIM_with_revenues_minus_costs_mod
    \/ Cell_BIM_linear
    \/ Writefile_BIM_with_revenues_over_costs_mod
    \/ Cell_BIM_fractional
    \/ Writefile_multi_product_factory_mod
    \/ Cell_multi_product_factory
    \/ Writefile_multi_product_factory_milo_mod
    \/ Cell_multi_product_factory_milo
    \/ Writefile_multi_product_factory_milo_disjunctive_mod
    \/ Cell_multi_product_factory_milo_disjunctive

Spec == Init /\ [][Next]_vars

\* ---- the pop-up shop: the three expected values ----
\* expected money is a numerator over PDen * QDen
Money(v) == v * PDen * QDen

AtEnd == nb = "pop" /\ pc = "done"
EVSS == out["pop.mod Expected Profit"]
EVPI == out["pop_evpi.mod Expected Profit"]
IsNotebookData == scenarios = NotebookScenarios /\ r = 40 /\ c = 12 /\ w = 2
SinglePoint == Cardinality(DOMAIN scenarios) = 1 /\ ProbabilitiesValid(scenarios)

\* C1: for every valid input (probabilities nonnegative and summing to one,
\* demands nonnegative, r >= c >= w >= 0) both models have an optimum and
\* EVM <= EVSS <= EVPI, that is, VSS and VPI are nonnegative
C1_Ordering ==
    (AtEnd /\ ProbabilitiesValid(scenarios)) =>
        /\ out["pop.mod solve_result"] = "solved"
        /\ out["pop_evpi.mod solve_result"] = "solved"
        /\ EVM <= EVSS
        /\ EVSS <= EVPI

C1_Witness ==
    AtEnd /\ ProbabilitiesValid(scenarios) /\ r >= c /\ c >= w /\ EVM < EVSS /\ EVSS < EVPI

C6_SinglePoint ==
    (AtEnd /\ SinglePoint) => (EVM = EVSS /\ EVSS = EVPI)

C6_Witness ==
    AtEnd /\ SinglePoint /\ EVM > 0 /\ EVM = EVSS /\ EVSS = EVPI

BimPrimalSolved == nb = "bim" /\ pc \in {"bim solved", "bim_dual.mod", "done"}
BimDualSolved == nb = "bim" /\ pc = "done"

\* C3: the BIM model is solved at x = (650, 1100) with objective 17700, and
\* bim_dual.mod at y = (0, 0, 6, 1.5) with the same objective 17700
C3_BimOptima ==
    /\ BimPrimalSolved =>
        /\ out["x"] = <<650, 1100>>
        /\ out["optimal value"] = 17700
    /\ BimDualSolved =>
        /\ ampl.result.solve_result = "solved"
        /\ out["y"] = <<0, 0, 6 * BimDualDen, 3>>
        /\ out["dual optimal value"] = 17700 * BimDualDen
        /\ out["dual optimal value"] = out["optimal value"] * ampl.result.den

C3_Witness ==
    /\ BimDualSolved /\ ampl.model = "bim_dual.mod"
    /\ Value(ampl, "y3") = 12 /\ Value(ampl, "y4") = 3
    /\ out["x"] = <<650, 1100>>

\* ---- production planning ----
ProdBuilt == nb = "prod" /\ pc \notin {"start", "variables", "objective"}
Row(lp, name) == lp.rows[CHOOSE k \in 1..Len(lp.rows) : lp.rows[k].name = name]
Coef(lp, rowname, varname) ==
    Row(lp, rowname).coef[CHOOSE i \in 1..Len(lp.names) : lp.names[i] = varname]

\* C4 as stated: the labor rows of the model in the session charge U one
\* hour of labor A and two hours of labor B, and V one hour of each, as the
\* problem statement and its table give them
C4_DirectTranslation ==
    (ProdBuilt /\ ampl.model = "cell") =>
        /\ Coef(ampl.lp, "labor_A", "yU") = ProblemStatement.U.laborA
        /\ Coef(ampl.lp, "labor_B", "yU") = ProblemStatement.U.laborB
        /\ Coef(ampl.lp, "labor_A", "yV") = ProblemStatement.V.laborA
        /\ Coef(ampl.lp, "labor_B", "yV") = ProblemStatement.V.laborB

\* C5: the basic model has optimal profit 2400 at xM = 720, xA = 80, xB = 80,
\* yU = 0, yV = 80 with revenue 16800 and cost 14400, and
\* production_planning_basic.mod has the same optimal profit
C5_ProdOptimum ==
    /\ (nb = "prod" /\ pc \in {"solved", "reported", "production_planning_basic.mod"}) =>
        /\ ampl.result.solve_result = "solved"
        /\ ampl.result.x = <<720, 80, 80, 0, 80>>
        /\ out["cbc objective"] = 2400 /\ out["highs objective"] = 2400
    /\ (nb = "prod" /\ pc \in {"reported", "production_planning_basic.mod", "done"}) =>
        /\ out["Profit"] = 2400 /\ out["Revenue"] = 16800 /\ out["Cost"] = 14400
    /\ (nb = "prod" /\ pc = "done") =>
        /\ ampl.result.solve_result = "solved"
        /\ ampl.result.objective = 2400
        /\ out["file objective"] = out["Profit"]

C5_Witness ==
    /\ nb = "prod" /\ pc = "done" /\ ampl.model = "production_planning_basic.mod"
    /\ Value(ampl, "y_V") = 80 /\ out["Profit"] = 2400

\* ---- optimal power flow: scenarios of the model and of the aggregate ----
OpfBuilt == nb = "opf" /\ pc \in {"perfect solved", "perfect aggregated", "uniform solved", "done"}
\* the scenario list handed to the call that built m
BuiltFrom == IF pc \in {"perfect solved", "perfect aggregated"} THEN zeroimbalances ELSE imbalances
PerfectAggregated == nb = "opf" /\ pc = "perfect aggregated"
StochasticAggregated == nb = "opf" /\ pc \in {"uniform solved", "done"}

\* the scenarios get_averagerecoursecost was given are those m was built with
SameScenarios ==
    /\ T = Cardinality(m.data.T)
    /\ abstotalimbalances = m.data.abs_total_imbalance
    /\ Flatten(imbalances) = m.data.imbalances

\* C8 as stated: in every solve-then-aggregate sequence the scenario set and
\* the count T given to get_averagerecoursecost are those of the model
C8_EverySequence ==
    (PerfectAggregated \/ StochasticAggregated) => SameScenarios

\* C8 as the code behaves: the two stochastic sequences aggregate over the
\* scenarios of the model; the perfect-forecast sequence builds the model on
\* the single zero scenario and aggregates over the T generated scenarios
C8_StochasticSequences ==
    /\ StochasticAggregated => SameScenarios
    /\ PerfectAggregated =>
        /\ m.data.T = {0}
        /\ m.data.abs_total_imbalance = (0 :> 0)
        /\ averagerecoursecost = get_averagerecoursecost(m, Network.nodes, T, abstotalimbalances)
        /\ averagerecoursecost.den = T * Den(m.data)

C8_Witness ==
    /\ StochasticAggregated /\ pc = "done" /\ T = 2 /\ m.data.T = {0, 1}
    /\ abstotalimbalances[0] # abstotalimbalances[1]
    /\ averagerecoursecost.num > 0

\* the constraints of opf_ldr.mod indexed by scenario, with their other index
ScenarioFamilies ==
    [power_withrecourse |-> m.data.V,
     generation_upper_bound_withrecourse |-> m.data.CG,
     generation_lower_bound_withrecourse |-> m.data.CG,
     flow_conservation |-> m.data.V,
     susceptance |-> m.data.E,
     flows_upper_bound |-> m.data.E,
     flows_lower_bound |-> m.data.E]

\* C9: the set T of the model is exactly {0, ..., len(imbalances) - 1}, and
\* every scenario-indexed constraint has exactly one instance per member of
\* its other index and input scenario: none dropped, none added
C9_OncePerScenario ==
    OpfBuilt =>
        LET n == Len(BuiltFrom)
        IN /\ m.data.T = 0..(n - 1)
           /\ \A fam \in DOMAIN ScenarioFamilies :
                /\ \A t \in 0..(n - 1) :
                     {inst \in m.instances[fam] : inst[2] = t}
                        = {<<i, t>> : i \in ScenarioFamilies[fam]}
                /\ \A inst \in m.instances[fam] : inst[2] \in 0..(n - 1)
                /\ Cardinality(m.instances[fam]) = n * Cardinality(ScenarioFamilies[fam])

C9_Witness ==
    /\ OpfBuilt /\ pc = "uniform solved" /\ Len(imbalances) = 2
    /\ m.data.T = {0, 1}
    /\ <<<<0, 3>>, 1>> \in m.instances.susceptance

\* the list of dictionaries a table stands for
Unflatten(table, n) ==
    [pos \in 1..n |->
        [k \in {key[2] : key \in {q \in DOMAIN table : q[1] = pos - 1}} |-> table[<<pos - 1, k>>]]]

\* C10: the table given to the parameter imbalances holds, for every scenario
\* position t and node k, the value imbalances[t][k] of the input list, has
\* exactly one entry per (scenario, node) pair, and yields the list back
C10_FlattenRoundTrip ==
    OpfBuilt =>
        LET list == BuiltFrom
            table == m.data.imbalances
        IN /\ \A t \in 0..(Len(list) - 1) : \A k \in DOMAIN list[t + 1] :
                table[<<t, k>>] = list[t + 1][k]
           /\ DOMAIN table = (0..(Len(list) - 1)) \X DOMAIN Network.nodes
           /\ Unflatten(table, Len(list)) = list

C10_Witness ==
    /\ OpfBuilt /\ pc = "done" /\ Len(imbalances) = 2
    /\ imbalances[1] # imbalances[2]
    /\ m.data.imbalances[<<1, 2>>] = imbalances[2][2]
    /\ imbalances[2][2] # 0

\* ---- reports after a solve that did not end optimal ----
PopReported == nb = "pop" /\ pc \in {"pop solved", "pop_evpi.mod", "done"}

BindOps == {"read", "eval", "param", "set", "set_data", "reset"}
SolveAt(log, i) == log[i].op = "solve"
NothingBoundBetween(log, a, b) == \A k \in (a + 1)..(b - 1) : log[k].op \notin BindOps
ProdSolved == nb = "prod" /\ pc \in {"solved", "reported", "production_planning_basic.mod", "done"}

\* C12: two solves of one instance with nothing bound in between return the
\* same objective value and the same assignment, and the production model
\* solved with cbc and then with highs reports the objective 2400 both times
C12_SolveTwice ==
    /\ \A i \in 1..Len(sessions) :
         LET log == sessions[i].calls
         IN \A a \in DOMAIN log : \A b \in DOMAIN log :
              (a < b /\ SolveAt(log, a) /\ SolveAt(log, b) /\ NothingBoundBetween(log, a, b)) =>
                  /\ log[a].arg.result.objective = log[b].arg.result.objective
                  /\ log[a].arg.result.x = log[b].arg.result.x
    /\ ProdSolved => out["cbc objective"] = 2400 /\ out["highs objective"] = 2400

C12_Witness ==
    /\ ProdSolved
    /\ \E a \in DOMAIN sessions[1].calls : \E b \in DOMAIN sessions[1].calls :
         /\ a < b /\ NothingBoundBetween(sessions[1].calls, a, b)
         /\ SolveAt(sessions[1].calls, a) /\ sessions[1].calls[a].arg.solver = "cbc"
         /\ SolveAt(sessions[1].calls, b) /\ sessions[1].calls[b].arg.solver = "highs"
         /\ sessions[1].calls[b].arg.result.objective = 2400

\* ---- one instance per model ----
IsPrefix(a, b) == Len(a) <= Len(b) /\ SubSeq(b, 1, Len(a)) = a

\* C13: a step never removes an instance; an instance that receives calls
\* keeps the model it holds and everything it was given or returned before,
\* no other instance changes in that step, and a model read from a file
\* goes into an instance created for it
C13_OwnInstance ==
    [][ /\ Len(sessions') >= Len(sessions)
        /\ \A i \in 1..Len(sessions) :
             \/ sessions'[i] = sessions[i]
             \/ /\ Len(sessions') = Len(sessions)
                /\ sessions[i].model \in {"none", sessions'[i].model}
                /\ IsPrefix(sessions[i].calls, sessions'[i].calls)
                /\ \A j \in 1..Len(sessions) : j # i => sessions'[j] = sessions[j]
        /\ \A i \in (Len(sessions) + 1)..Len(sessions') :
             sessions'[i].calls # <<>> /\ sessions'[i].calls[1].op = "read"
      ]_vars

\* the primal instance still holds its solve after the dual was built and
\* solved in an instance of its own
C13_Witness ==
    /\ nb = "bim" /\ pc = "done" /\ Len(sessions) = 2
    /\ sessions[1].model = "cell" /\ sessions[2].model = "bim_dual.mod"
    /\ \E k \in DOMAIN sessions[1].calls :
         /\ SolveAt(sessions[1].calls, k)
         /\ sessions[1].calls[k].arg.result.objective = out["optimal value"]
    /\ \E k \in DOMAIN sessions[2].calls :
         /\ SolveAt(sessions[2].calls, k)
         /\ sessions[2].calls[k].arg.result.objective = out["dual optimal value"]

\* ---- the order of the calls on an instance ----
ReadOps == {"get", "display"}
SolvedBefore(log, k) == \E a \in 1..(k - 1) : SolveAt(log, a)

\* C14: on every instance the model and its sets and parameters are bound
\* before the first solve and values are read only after a solve; the data
\* bound is the data the notebook built before it created the instance
C14_BuildBindSolveRead ==
    /\ \A i \in 1..Len(sessions) :
         LET log == sessions[i].calls
         IN \A k \in DOMAIN log :
              /\ log[k].op \in ReadOps => SolvedBefore(log, k)
              /\ log[k].op \in BindOps => ~SolvedBefore(log, k)
    /\ \A i \in 1..Len(sessions) : \A k \in DOMAIN sessions[i].calls :
         LET call == sessions[i].calls[k]
         IN /\ (nb = "pop" /\ call.op = "set_data") => call.arg = <<"S", scenarios_df>>
            /\ (nb = "lad" /\ call.op = "param") =>
                   call.arg \in {<<"y", dataset.y>>, <<"X", dataset.X>>}

C14_Witness ==
    /\ nb = "pop" /\ pc = "pop solved" /\ Len(sessions) = 2
    /\ \E a \in DOMAIN sessions[2].calls : \E b \in DOMAIN sessions[2].calls :
       \E d \in DOMAIN sessions[2].calls :
         /\ a < b /\ b < d
         /\ sessions[2].calls[a] = Call("set_data", <<"S", scenarios_df>>)
         /\ SolveAt(sessions[2].calls, b)
         /\ sessions[2].calls[d] = Call("get", "EV")
         /\ out["pop.mod Expected Profit"] = sessions[2].calls[b].arg.result.objective

\* ---- one solver run per solve() ----
\* the solver of the solve at k was selected by an option call made for
\* this solve: no solve and no other selection lies between the two
SelectedFor(log, k) ==
    \E a \in 1..(k - 1) :
        /\ log[a] = Call("option", <<"solver", log[k].arg.solver>>)
        /\ \A j \in (a + 1)..(k - 1) : log[j].op = "option" /\ log[j].arg[1] # "solver"

\* C15: every solver run on an instance uses the solver selected for it by
\* the notebook, and no solver runs on an instance after a solve that did
\* not end "solved"
C15_OneInvocation ==
    \A i \in 1..Len(sessions) :
        LET log == sessions[i].calls
        IN \A k \in DOMAIN log :
             SolveAt(log, k) =>
                 /\ SelectedFor(log, k)
                 /\ \A a \in 1..(k - 1) :
                      SolveAt(log, a) => log[a].arg.result.solve_result = "solved"

\* pop.mod ended unbounded and cbc ran once on its instance
C15_Witness ==
    /\ nb = "pop" /\ pc = "pop solved" /\ Len(sessions) = 2
    /\ out["pop.mod solve_result"] = "unbounded"
    /\ Cardinality({k \in DOMAIN sessions[2].calls : SolveAt(sessions[2].calls, k)}) = 1
    /\ \E k \in DOMAIN sessions[2].calls :
         /\ SolveAt(sessions[2].calls, k)
         /\ sessions[2].calls[k].arg.solver = "cbc"
         /\ sessions[2].calls[k].arg.result.solve_result = "unbounded"

\* ---- least absolute deviation over all lines ----
LadFitted == nb = "lad" /\ pc \in {"fitted", "done"}

\* the least sum of absolute errors over all real slopes and intercepts: it
\* is attained on a line through two samples or on a level line through one
LeastAbsoluteDeviation(data) ==
    Min({sum_of_abs_errors(data, v.m, v.b) :
            v \in LinesThroughTwo(data) \cup LevelThroughOne(data)})

\* C16: the line lad_regression returns has the least sum of absolute errors
\* among all lines, whatever the sign of their slope
C16_LeastAbsoluteDeviation ==
    LadFitted =>
        sum_of_abs_errors(dataset, m.result.m, m.result.b) = LeastAbsoluteDeviation(dataset)

\* ---- the chance-constrained portfolio problem as the notebook states it ----
MkzLoaded == nb = "mkz" /\ pc = "done" /\ m.model = "markowitz_chanceconstraints.mod"

\* R x_tilde + mu' x, over Grid
StatedObjective(par, pt) == par.R * pt.x_tilde + MeanReturn(par, pt)

\* Phi^-1(1 - beta) ||Sigma^(1/2) x|| <= mu' x - alpha: with a nonnegative left
\* side, the right side is nonnegative and the squares compare the same way
StatedChanceConstraint(par, pt) ==
    LET rhs == MeanReturn(par, pt) - par.alpha * Grid
    IN rhs >= 0 /\ par.phi_val * par.phi_val * Variance(par, pt) <= rhs * rhs

\* C17: on the data loaded, the model's objective is R x_tilde + mu' x and
\* its constraint bounded_variance admits exactly the portfolios whose
\* return has Phi^-1(1 - beta) standard deviations at most mu' x - alpha
C17_StatedSOCP ==
    MkzLoaded =>
        \A pt \in Portfolios(params) :
            /\ expected_return(params, pt) = StatedObjective(params, pt)
            /\ bounded_variance(params, pt) <=> StatedChanceConstraint(params, pt)

\* ---- pop.mod with the order fixed ----
PopEvaluated == nb = "pop" /\ pc \in {"evm", "pop.mod", "pop solved", "pop_evpi.mod", "done"}
PopModel == LoadData(r, c, w, RenameColumns(scenarios))

\* the orders tried: the levels of the solver's lattice and the expected
\* demand, where not negative
FixedOrders == {x \in Levels(PopModel) \cup {expected_demand} : x >= 0}
WithOrder(x) == Levels(PopModel) \cup {x}
Sold(s, x) == min2(scenarios[s].demand * QDen, x)

OpfSolved == OpfBuilt /\ m.result.solve_result = "solved"

\* the right side of flow_conservation at node i, over Den
Injection(data, pt, i, t) ==
    power_withrecourse(data, pt, i, t)
      + (data.imbalances[<<t, i>>] - data.nodes[i].d) * Den(data)

\* the flow on an edge whose tail has no other edge: flow_conservation at
\* the tail leaves no other value
EdgeFlow(data, pt, e, t) == 0 - Injection(data, pt, e[1], t)

\* the left side of flow_conservation at node i
NetInflow(data, pt, i, t) ==
    SumOver({e \in data.E : e[2] = i}, [e \in data.E |-> EdgeFlow(data, pt, e, t)])
      - SumOver({e \in data.E : e[1] = i}, [e \in data.E |-> EdgeFlow(data, pt, e, t)])

C20_ObjectiveSplits ==
    (StochasticAggregated /\ SameScenarios /\ m.result.solve_result = "solved") =>
        /\ averagerecoursecost.den = m.result.obj.den
        /\ m.result.obj.num = T * firststagecost + averagerecoursecost.num
        /\ firststagecost = get_firststagecost(m)
        /\ averagerecoursecost = get_averagerecoursecost(m, Network.nodes, T, abstotalimbalances)
        /\ averagerecoursecost.num = RecourseTerm(m.data, m.result)
        /\ \A i \in m.data.V :
             i \notin WithEnergyType(m.data.nodes, {"coal", "gas"}) => m.result.alpha[i] = 0

\* the optimized factors on two scenarios with a recourse cost
C20_Witness ==
    /\ StochasticAggregated /\ pc = "done" /\ SameScenarios
    /\ m.result.solve_result = "solved" /\ T = 2
    /\ m.data.uniformparticipationfactors = 0
    /\ averagerecoursecost.num > 0 /\ firststagecost > 0
    /\ m.result.obj.num = T * firststagecost + averagerecoursecost.num

\* ---- rounding the optimum of the perturbed BIM model ----
BimPerturbedDone == nb = "bimp" /\ pc = "done"
\* the optimum the LO instance returned
LOResult == sessions[2].calls[3].arg.result
RoundedDown == <<LOResult.x[1] \div LOResult.den, LOResult.x[2] \div LOResult.den>>
RoundedUp ==
    <<(LOResult.x[1] + LOResult.den - 1) \div LOResult.den,
      (LOResult.x[2] + LOResult.den - 1) \div LOResult.den>>

\* C21: the integer model returns (626, 1124) with profit 17628; the linear
\* one prints (626.238, 1123.762); that point rounded down is (626, 1123),
\* feasible with less profit, and rounded up is (627, 1124), infeasible
C21_RoundingMissesOptimum ==
    BimPerturbedDone =>
        /\ m.result.solve_result = "solved"
        /\ m.result.x = <<626, 1124>> /\ m.result.objective = 17628
        /\ out["MILO"] = [x |-> <<626000, 1124000>>, value |-> 17628000]
        /\ out["LO"].x = <<626238, 1123762>>
        /\ RoundedDown = <<626, 1123>>
        /\ LPFeasible(BIM_perturbed_MILO, RoundedDown, 1)
        /\ Dot(BIM_perturbed_MILO.obj, RoundedDown) < m.result.objective
        /\ RoundedUp = <<627, 1124>>
        /\ ~LPFeasible(BIM_perturbed_MILO, RoundedUp, 1)

C21_Witness ==
    /\ BimPerturbedDone /\ m.model = "BIM_perturbed_MILO.mod"
    /\ LOResult.den > 1
    /\ m.result.x \notin {RoundedDown, RoundedUp}
    /\ out["MILO"].value = 17628000

\* ---- the ratio of revenues over costs ----
BimRatioDone == nb = "bimrc" /\ pc = "done"
\* points (y1, y2, t) to try: every meeting point of three border planes of
\* the model, and the points over the denominator Sixths * fixed_cost on
\* the plane of the row frac
FracGrid ==
    LET d == Sixths * fixed_cost
        rest(a, tt) == Sixths * d - 7 * a - d * tt
    IN {[x |-> <<at[1], rest(at[1], at[2]) \div 5, at[2]>>, den |-> d] :
            at \in {q \in (0..((Sixths * d) \div 7)) \X (0..Sixths) :
                        rest(q[1], q[2]) >= 0 /\ rest(q[1], q[2]) % 5 = 0}}
FracPoints == Corners(BIM_with_revenues_over_costs) \cup FracGrid
FracFeasible(v) == Inside3(HalfSpaces(BIM_with_revenues_over_costs), v)
\* 12*y1 + 9*y2 at v equals (12*x1 + 9*x2) / (7/6*x1 + 5/6*x2 + 100) at
\* (x1, x2) = (y1/t, y2/t), cross-multiplied
ObjectiveIsRatio(v) ==
    Dot(BIM_with_revenues_over_costs.obj, v.x)
            * (variable_cost_sixths(v.x) + Sixths * fixed_cost * v.x[3])
        = Sixths * revenue(v.x) * v.den
LinearResult == sessions[2].calls[3].arg.result

\* C22: every feasible point of BIM_with_revenues_over_costs.mod has t > 0,
\* (y1/t, y2/t) satisfies the BIM rows, and 12*y1 + 9*y2 is the ratio of
\* revenue over cost there; the optimum prints x = (250, 1500), revenue
\* 16500, cost 1641.67, ratio 10.051, strictly above 17700/1775 of the
\* revenues-minus-costs optimum
C22_RatioReformulation ==
    BimRatioDone =>
        /\ \A v \in FracPoints : FracFeasible(v) =>
                /\ v.x[3] > 0
                /\ LPFeasible(BimPrimal, <<v.x[1], v.x[2]>>, v.x[3])
                /\ ObjectiveIsRatio(v)
        /\ "fractional" \in DOMAIN out
        /\ out["fractional"] = [x |-> <<2500, 15000>>, value |-> 10051,
                                 revenue |-> 1650000, cost |-> 164167]
        /\ out["linear"].revenue = 1770000 /\ out["linear"].cost = 177500
        /\ m.result.objective * (variable_cost_sixths(LinearResult.x)
                                    + Sixths * fixed_cost * LinearResult.den)
             > Sixths * revenue(LinearResult.x) * m.result.den

C22_Witness ==
    /\ BimRatioDone /\ m.model = "BIM_with_revenues_over_costs.mod"
    /\ \E v \in FracGrid : FracFeasible(v) /\ v.x[1] > 0 /\ v.x[2] > 0
    /\ \E v \in FracPoints : v.x[3] = 0 /\ ~FracFeasible(v)
    /\ m.result.x[3] > 0 /\ m.result.den > 1
    /\ out["linear"].x = <<6500, 11000>>

\* ---- the two formulations of the choice of technology ----
FactoryDone == nb = "gdp" /\ pc = "done"
SingleResult == sessions[2].calls[3].arg.result
BigMResult == sessions[3].calls[3].arg.result
DisjunctiveResult == sessions[4].calls[3].arg.result
\* res is the point profit, (x, y)
At(res, profit_value, xy) ==
    /\ res.solve_result = "solved"
    /\ res.x[1] = profit_value * res.den
    /\ res.x[2] = xy[1] * res.den /\ res.x[3] = xy[2] * res.den

\* C23: the big-M model and the disjunctive model both return profit 3600
\* at (40, 40) with technology beta, above the 2600 at (20, 60) of the
\* model with the one technology
C23_SameOptimum ==
    FactoryDone =>
        /\ At(BigMResult, 3600, <<40, 40>>) /\ BigMResult.x[4] = BigMResult.den
        /\ At(DisjunctiveResult, 3600, <<40, 40>>)
        /\ technology_beta(DisjunctiveResult) /\ ~technology_alpha(DisjunctiveResult)
        /\ At(SingleResult, 2600, <<20, 60>>)
        /\ SingleResult.x[1] * BigMResult.den < BigMResult.x[1] * SingleResult.den
        /\ out["multi_product_factory_milo"].Profit = 360000
        /\ out["multi_product_factory_milo_disjunctive"]
                = out["multi_product_factory_milo"]
        /\ out["multi_product_factory"].Profit = 260000

C23_Witness ==
    /\ FactoryDone /\ Len(sessions) = 4
    /\ m.model = "multi_product_factory_milo_disjunctive.mod"
    /\ DOMAIN out = {"multi_product_factory", "multi_product_factory_milo",
                      "multi_product_factory_milo_disjunctive"}
    /\ BigMResult.x[1] = DisjunctiveResult.x[1]
    /\ BigMResult.x[4] > 0

\* ---- the constant M of the big-M model ----
BigM(zv) == Fixed(multi_product_factory_milo, zv)
\* (profit, production_x, production_y) to try: whole points in and around
\* the region of demand and the labors, with the profit on, just under and
\* just over each of the four profit rows
Productions == (-1..41) \X (-1..101)
ProfitRows(xy) ==
    {40 * xy[1] + 30 * xy[2], 60 * xy[1] + 30 * xy[2],
     40 * xy[1] + 30 * xy[2] + M, 60 * xy[1] + 30 * xy[2] + M}
ProfitsNear(xy) == {base + d : base \in ProfitRows(xy), d \in -1..1}
FactoryPoint(profit_value, xy) == [x |-> <<profit_value, xy[1], xy[2]>>, den |-> 1]
\* and every meeting point of three border planes of the model for either z
FactoryCorners == Corners(BigM(0)) \cup Corners(BigM(1))
\* the rows of the technology that z selects: alpha is profit <= 40x + 30y
\* and 2x + y <= 100, beta is profit <= 60x + 30y and 1.5x + y <= 100
ActiveNames(zv) ==
    IF zv = 0 THEN {"profit_constr_1", "laborB_1"} ELSE {"profit_constr_2", "laborB_2"}
RelaxedNames(zv) == ActiveNames(1 - zv)
Technology(zv) ==
    IF zv = 0
    THEN << [name |-> "profit", coef |-> <<1, -40, -30>>, op |-> "<=", rhs |-> 0],
            [name |-> "labor", coef |-> <<0, 2, 1>>, op |-> "<=", rhs |-> 100] >>
    ELSE << [name |-> "profit", coef |-> <<1, -60, -30>>, op |-> "<=", rhs |-> 0],
            [name |-> "labor", coef |-> <<0, 3, 2>>, op |-> "<=", rhs |-> 200] >>
\* production_x, production_y >= 0, demand and laborA
Shared(v) ==
    /\ v.x[2] >= 0 /\ v.x[3] >= 0
    /\ v.x[2] <= 40 * v.den
    /\ v.x[2] + v.x[3] <= 80 * v.den
InTechnology(rows, v) == Shared(v) /\ BlockHolds(rows, v)
\* the rows of the model that M relaxes for this z
Relaxed(zv) ==
    LET IsRelaxed(row) == row.name \in RelaxedNames(zv)
    IN SelectSeq(BigM(zv).rows, IsRelaxed)
\* every one of them has slack at v
RelaxedRowsSlack(rows, v) ==
    \A k \in 1..Len(rows) : Dot(rows[k].coef, v.x) < rows[k].rhs * v.den

\* the model at zv and the technology agree on v, and the relaxed rows have
\* slack there
Agree(spaces, active, relaxed, v) ==
    /\ Inside3(spaces, v) <=> InTechnology(active, v)
    /\ InTechnology(active, v) => RelaxedRowsSlack(relaxed, v)

\* C24: with M = 10000 the big-M model at z = 0 has exactly the points of
\* technology alpha and at z = 1 exactly those of technology beta: at every
\* point within demand, labor A and the chosen technology the rows relaxed
\* by M hold with slack
C24_BigMIsBigEnough ==
    FactoryDone =>
        \A zv \in 0..1 :
            LET spaces == HalfSpaces(BigM(zv))
                active == Technology(zv)
                relaxed == Relaxed(zv)
            IN /\ \A v \in FactoryCorners : Agree(spaces, active, relaxed, v)
               /\ \A xy \in Productions : \A pv \in ProfitsNear(xy) :
                    Agree(spaces, active, relaxed, FactoryPoint(pv, xy))

C24_Witness ==
    /\ FactoryDone /\ M = 10000
    /\ InTechnology(Technology(0), FactoryPoint(2600, <<20, 60>>))
    /\ 2600 \in ProfitsNear(<<20, 60>>)
    /\ InTechnology(Technology(1), FactoryPoint(3600, <<40, 40>>))
    /\ ~InTechnology(Technology(0), FactoryPoint(3600, <<40, 40>>))
    /\ Inside3(HalfSpaces(BigM(1)), FactoryPoint(3600, <<40, 40>>))
    /\ \E v \in FactoryCorners : /\ Shared(v)
                                   /\ ~InTechnology(Technology(0), v)
                                   /\ ~InTechnology(Technology(1), v)

====
